---- MODULE Spec2Model ----
(***************************************************************************)
(* Model of portail's sanitization and session-orchestration core          *)
(* (src/unnamed/part_001 lines 1-1219, the current app.js; src/app.js is   *)
(* an earlier copy of the same functions).                                 *)
(*                                                                         *)
(* Markup is modelled as the tree the browser's permissive parser builds:  *)
(* a fragment is a sequence of elements, an element a record               *)
(*   [tag, attrs, text, kids]                                              *)
(* with a lower-case tag name, attrs a function from lower-case attribute  *)
(* names to string values, text the element's own text and kids its child  *)
(* elements.  For a <template> element kids is its template content: the   *)
(* DOM keeps it in a separate DocumentFragment that querySelectorAll does  *)
(* not reach and that innerHTML serialises.  Strings are TLA+ strings,     *)
(* handled character by character (Len, SubSeq, \o).                       *)
(***************************************************************************)
EXTENDS Integers, Sequences, FiniteSets, TLC

VARIABLES
    currentScreen,        \* state.currentScreen: "warning" | "apikey" | "experience"
    apiKey,               \* state.apiKey: NULL or the validated key
    aiProvider,           \* state.aiProvider: NULL or the key the provider object holds
    validating,           \* the key of the validate() call in flight (startBtn disabled), or NULL
    history,              \* state.history: the log of entries
    currentHistoryIndex,  \* state.currentHistoryIndex: the cursor, 0-based, -1 when unset
    agenticLoop,          \* state.agenticLoop: [currentStep, totalSteps, stepHistory]
    regenerateDisabled,   \* elements.regenerateBtn.disabled
    surface,              \* elements.generatedContent: what is mounted, with its listeners
    historyList,          \* elements.historyList: the number of history items rendered
    navStack,             \* window.history: the state object of each platform entry
    navPos,               \* window.history: the index of the current platform entry
    backend,              \* what the backend's generateContent and generateExperienceType
                          \* resolve to, and what Math.random() returns, in this run
    generated,            \* how many fragments the backend has produced in this run
    tasks,                \* the suspended calls of generateExperience / handleInteraction
    started,              \* the number of generation sequences started so far
    committed,            \* the number of entries committed so far (the id generator)
    sanIn,                \* sanitizer harness: the fragment passed to sanitizeHTML
    sanOut,               \* sanitizer harness: the fragment it returned, or NoResult
    sanPc,                \* sanitizer harness: "idle" | "ready" | "done" | "again"
    sanAgain,             \* sanitizer harness: what sanitizeHTML returned for the markup
                          \* it had returned, or NoResult
    callArgs,             \* function harness: the function called and its arguments
    callResult,           \* function harness: what it returned, or NoResult
    callPc                \* function harness: "idle" | "ready" | "done"

sessionVars == <<currentScreen, apiKey, aiProvider, validating, history, currentHistoryIndex,
                 agenticLoop, regenerateDisabled, surface, historyList, navStack, navPos,
                 backend, generated, tasks, started, committed>>

sanVars == <<sanIn, sanOut, sanPc, sanAgain>>

callVars == <<callArgs, callResult, callPc>>

harnessVars == <<sanVars, callVars>>

vars == <<sessionVars, harnessVars>>

\* ------------------------------------------------------------------ strings

NULL == "<null>"
NoResult == "<none>"

LowerLetters == "abcdefghijklmnopqrstuvwxyz"
UpperLetters == "ABCDEFGHIJKLMNOPQRSTUVWXYZ"
Digits == "0123456789"
HexDigits == "0123456789abcdef"

Ch(s, i) == SubSeq(s, i, i)

CharsOf(s) == {Ch(s, i) : i \in 1..Len(s)}

\* \w of a JavaScript regular expression
WordChars == CharsOf(LowerLetters) \cup CharsOf(UpperLetters) \cup CharsOf(Digits) \cup {"_"}

\* \s of a JavaScript regular expression and String.prototype.trim (the
\* characters of it that the model's inputs use)
SpaceChars == {" ", "\t", "\n", "\r", "\f"}

\* the line terminators that "." does not match
LineTerminators == {"\n", "\r"}

IndexIn(c, alphabet) ==
    IF \E i \in 1..Len(alphabet) : Ch(alphabet, i) = c
    THEN CHOOSE i \in 1..Len(alphabet) : Ch(alphabet, i) = c
    ELSE 0

LowerChar(c) ==
    IF IndexIn(c, UpperLetters) > 0 THEN Ch(LowerLetters, IndexIn(c, UpperLetters)) ELSE c

RECURSIVE toLowerCase(_)
toLowerCase(s) ==
    IF Len(s) = 0 THEN "" ELSE LowerChar(Ch(s, 1)) \o toLowerCase(SubSeq(s, 2, Len(s)))

RECURSIVE trimStart(_)
trimStart(s) ==
    IF Len(s) > 0 /\ Ch(s, 1) \in SpaceChars THEN trimStart(SubSeq(s, 2, Len(s))) ELSE s

RECURSIVE trimEnd(_)
trimEnd(s) ==
    IF Len(s) > 0 /\ Ch(s, Len(s)) \in SpaceChars THEN trimEnd(SubSeq(s, 1, Len(s) - 1)) ELSE s

trim(s) == trimEnd(trimStart(s))

startsWith(s, p) == Len(s) >= Len(p) /\ SubSeq(s, 1, Len(p)) = p

MatchAt(s, i, lit) == i >= 1 /\ i + Len(lit) - 1 <= Len(s) /\ SubSeq(s, i, i + Len(lit) - 1) = lit

\* String.prototype.indexOf, 1-based; 0 when absent
indexOf(s, lit) ==
    IF \E i \in 1..Len(s) : MatchAt(s, i, lit)
    THEN CHOOSE i \in 1..Len(s) : MatchAt(s, i, lit) /\ \A j \in 1..(i - 1) : ~MatchAt(s, j, lit)
    ELSE 0

includes(s, lit) == \E i \in 1..(Len(s) + 1) : MatchAt(s, i, lit)

IsWordAt(s, i) == i >= 1 /\ i <= Len(s) /\ Ch(s, i) \in WordChars

\* \b between the characters i-1 and i of s
WordBoundary(s, i) == IsWordAt(s, i - 1) # IsWordAt(s, i)

\* lit occurs in s; with wb1 a \b before it, with wb2 a \b after it
Occurs(s, lit, wb1, wb2) ==
    \E i \in 1..Len(s) :
        /\ MatchAt(s, i, lit)
        /\ wb1 => WordBoundary(s, i)
        /\ wb2 => WordBoundary(s, i + Len(lit))

\* ------------------------------------------- sanitizeHTML: the onclick grammar

\* The characters with codes 32..95 and 97..126, by code.
Ascii32 == " !\"#$%&'()*+,-./0123456789:;<=>?@ABCDEFGHIJKLMNOPQRSTUVWXYZ[\\]^_"
Ascii97 == "abcdefghijklmnopqrstuvwxyz{|}~"

\* String.fromCharCode(n).  Codes the model's inputs never escape (control
\* characters other than tab, newline and return, code 96, codes above 126)
\* are folded into "~", which no pattern of the sanitizer mentions.
fromCharCode(n) ==
    IF n >= 32 /\ n <= 95 THEN Ch(Ascii32, n - 31)
    ELSE IF n >= 97 /\ n <= 126 THEN Ch(Ascii97, n - 96)
    ELSE IF n = 9 THEN "\t"
    ELSE IF n = 10 THEN "\n"
    ELSE IF n = 13 THEN "\r"
    ELSE "~"

IsHex(c) == IndexIn(LowerChar(c), HexDigits) > 0

HexVal(c) == IndexIn(LowerChar(c), HexDigits) - 1

\* parseInt(hex, 16) of a string of hexadecimal digits
RECURSIVE parseIntHex(_)
parseIntHex(h) ==
    IF Len(h) = 0 THEN 0
    ELSE 16 * parseIntHex(SubSeq(h, 1, Len(h) - 1)) + HexVal(Ch(h, Len(h)))

AllHex(h) == \A i \in 1..Len(h) : IsHex(Ch(h, i))

\* s.replace(/\\<letter>([\dA-Fa-f]{n})/g, (m, hex) => String.fromCharCode(parseInt(hex, 16)))
RECURSIVE replaceEscapes(_, _, _)
replaceEscapes(s, letter, n) ==
    IF Len(s) = 0 THEN ""
    ELSE IF /\ Len(s) >= n + 2
            /\ SubSeq(s, 1, 2) = "\\" \o letter
            /\ AllHex(SubSeq(s, 3, n + 2))
         THEN fromCharCode(parseIntHex(SubSeq(s, 3, n + 2)))
                  \o replaceEscapes(SubSeq(s, n + 3, Len(s)), letter, n)
         ELSE Ch(s, 1) \o replaceEscapes(SubSeq(s, 2, Len(s)), letter, n)

\* lines 23-34: \uXXXX escapes are decoded first, \xXX escapes in the result
normalizedValue(onclickValue) == replaceEscapes(replaceEscapes(onclickValue, "u", 4), "x", 2)

\* a keyword test that rejects nothing
hasDangerousKeywords_none(v) == FALSE

\* line 38, /(...)/i on the normalized value
hasDangerousKeywords(v) ==
    LET l == toLowerCase(v) IN
    \/ Occurs(l, "eval", TRUE, TRUE)
    \/ Occurs(l, "function", TRUE, TRUE)
    \/ Occurs(l, "javascript:", FALSE, FALSE)
    \/ Occurs(l, "<script", FALSE, TRUE)
    \/ Occurs(l, ".constructor", FALSE, FALSE)
    \/ Occurs(l, "prototype", TRUE, TRUE)
    \/ Occurs(l, "__proto__", FALSE, FALSE)
    \/ Occurs(l, "location.", FALSE, FALSE)
    \/ Occurs(l, "document.", FALSE, FALSE)
    \/ Occurs(l, "window.", FALSE, FALSE)
    \/ Occurs(l, "globalthis.", FALSE, FALSE)
    \/ Occurs(l, "cookie", FALSE, FALSE)
    \/ \E c \in SpaceChars : Occurs(l, "import" \o c, FALSE, FALSE)
    \/ Occurs(l, "require(", FALSE, FALSE)
    \/ Occurs(l, "this", TRUE, TRUE)
    \/ Occurs(l, ";", FALSE, FALSE)

\* the index of the first character of s at or after i that is not white space
RECURSIVE SkipSpaces(_, _)
SkipSpaces(s, i) ==
    IF i <= Len(s) /\ Ch(s, i) \in SpaceChars THEN SkipSpaces(s, i + 1) ELSE i

\* line 41, /^alert\s*\(.+\)\s*$/ on the trimmed normalized value: "alert",
\* white space, "(", one or more characters none of them a line terminator,
\* ")" and only white space up to the end (none is left after trim)
isValidAlertCall(v) ==
    LET t == trim(v)
        open == SkipSpaces(t, 6)
    IN  /\ startsWith(t, "alert")
        /\ open <= Len(t) /\ Ch(t, open) = "("
        /\ Ch(t, Len(t)) = ")"
        /\ Len(t) - 1 >= open + 1
        /\ \A i \in (open + 1)..(Len(t) - 1) : Ch(t, i) \notin LineTerminators

\* line 44, /\bMath\b/i
usesMath(v) == Occurs(toLowerCase(v), "math", TRUE, TRUE)

SafeMathMethods == {"floor", "ceil", "round", "random", "abs", "min", "max", "pow", "sqrt", "sign"}

\* the end of the run of word characters of s that starts at i (i - 1 when empty)
RECURSIVE WordEnd(_, _)
WordEnd(s, i) == IF IsWordAt(s, i) THEN WordEnd(s, i + 1) ELSE i - 1

\* lines 45-51: every match of /Math\.\w+/gi must be Math.<safe method>
\* (line 48, /\bMath\.(floor|...)\b/i tested on the match alone)
usesSafeMathOnly(v) ==
    LET l == toLowerCase(v) IN
    usesMath(v) =>
        \A i \in 1..Len(l) :
            (MatchAt(l, i, "math.") /\ IsWordAt(l, i + 5)) =>
                \E m \in SafeMathMethods :
                    /\ MatchAt(l, i + 5, m)
                    /\ WordEnd(l, i + 5) = i + 4 + Len(m)

\* lines 60-72: the index of the ")" that closes the "(" at i, 0 when none
RECURSIVE MatchingParen(_, _, _)
MatchingParen(s, i, depth) ==
    IF i > Len(s) THEN 0
    ELSE IF Ch(s, i) = "(" THEN MatchingParen(s, i + 1, depth + 1)
    ELSE IF Ch(s, i) = ")" THEN
        IF depth - 1 = 0 THEN i ELSE MatchingParen(s, i + 1, depth - 1)
    ELSE MatchingParen(s, i + 1, depth)

\* lines 55-80: the message of the directive the handler is converted to,
\* NULL when the handler is not converted
alertMessage(onclickValue) ==
    LET v == normalizedValue(onclickValue)
        alertStart == indexOf(v, "(")
        alertEnd == MatchingParen(v, alertStart, 0)
    IN  IF /\ isValidAlertCall(v) /\ ~hasDangerousKeywords(v) /\ usesSafeMathOnly(v)
           /\ alertStart # 0
           /\ alertEnd # 0
        THEN trim(SubSeq(v, alertStart + 1, alertEnd - 1))
        ELSE NULL

\* --------------------------------------------------- sanitizeHTML: the tree

NoAttrs == [n \in {} |-> ""]

hasAttribute(el, name) == name \in DOMAIN el.attrs

removeAttributes(attrs, names) == [n \in (DOMAIN attrs) \ names |-> attrs[n]]

setAttribute(attrs, name, value) ==
    [n \in (DOMAIN attrs) \cup {name} |-> IF n = name THEN value ELSE attrs[n]]

\* lines 15-88: every attribute whose name starts with "on" is removed; the
\* onclick of a button is first examined and, when it is a valid alert call,
\* converted to data-action-type and data-alert-message
eventHandlersRemoved(el) ==
    LET handlers == {n \in DOMAIN el.attrs : startsWith(n, "on")}
        kept == removeAttributes(el.attrs, handlers)
        message == IF el.tag = "button" /\ "onclick" \in handlers
                   THEN alertMessage(el.attrs["onclick"])
                   ELSE NULL
    IN  IF message # NULL
        THEN setAttribute(setAttribute(kept, "data-action-type", "alert"),
                          "data-alert-message", message)
        ELSE kept

\* line 91
dangerousAttrs == {"formaction", "form", "formmethod", "formtarget"}

\* lines 102-104 and 113-115, on the trimmed, lower-cased value
hasScriptScheme(value) ==
    LET lower == toLowerCase(trim(value)) IN
    \/ startsWith(lower, "javascript:")
    \/ startsWith(lower, "data:")
    \/ startsWith(lower, "vbscript:")

\* lines 98-107
hrefSanitized(attrs) ==
    IF "href" \in DOMAIN attrs /\ hasScriptScheme(attrs["href"])
    THEN setAttribute(attrs, "href", "#")
    ELSE attrs

\* lines 109-118
srcSanitized(attrs) ==
    IF "src" \in DOMAIN attrs /\ hasScriptScheme(attrs["src"])
    THEN removeAttributes(attrs, {"src"})
    ELSE attrs

\* a body that first drops the directive attributes the element arrived with
sanitizeElement_dropsDirectives(el) ==
    [el EXCEPT !.attrs =
        srcSanitized(hrefSanitized(removeAttributes(
            eventHandlersRemoved(
                [el EXCEPT !.attrs = removeAttributes(el.attrs, {"data-action-type",
                                                                 "data-alert-message"})]),
            dangerousAttrs)))]

\* lines 13-119: the body of allElements.forEach
sanitizeElement(el) ==
    [el EXCEPT !.attrs =
        srcSanitized(hrefSanitized(removeAttributes(eventHandlersRemoved(el), dangerousAttrs)))]

\* the elements a selector reaches below el: its children, except for a
\* template, whose content is not in the tree that querySelectorAll walks
Reaches(el) == el.tag # "template"

\* lines 8-9: temp.querySelectorAll('script') and script.remove()
RECURSIVE scriptsRemoved(_)
scriptsRemoved(nodes) ==
    LET kept == SelectSeq(nodes, LAMBDA el : el.tag # "script") IN
    [i \in 1..Len(kept) |->
        IF Reaches(kept[i])
        THEN [kept[i] EXCEPT !.kids = scriptsRemoved(kept[i].kids)]
        ELSE kept[i]]

\* lines 12-13: temp.querySelectorAll('*') and forEach
RECURSIVE allElementsSanitized(_)
allElementsSanitized(nodes) ==
    [i \in 1..Len(nodes) |->
        IF Reaches(nodes[i])
        THEN [sanitizeElement(nodes[i]) EXCEPT !.kids = allElementsSanitized(nodes[i].kids)]
        ELSE sanitizeElement(nodes[i])]

\* lines 2-122
sanitizeHTML(html) == allElementsSanitized(scriptsRemoved(html))

\* ------------------------------- sanitizeHTML: markup written and read back

\* the elements that have neither content nor end tag
VoidTags == {"img", "input", "br", "hr"}

\* the elements after whose start tag the HTML parser ignores one line feed
NewlineTags == {"pre", "listing", "textarea"}

\* markup as the sequence of its tags and character runs (nid is the
\* position of the element in document order)
Token(type, nid, tag, attrs, data) ==
    [type |-> type, nid |-> nid, tag |-> tag, attrs |-> attrs, data |-> data]

\* line 121: temp.innerHTML read, the serialization of the children. No line
\* feed is written after the start tag of a pre, listing or textarea.
RECURSIVE innerHTML(_)
innerHTML(nodes) ==
    IF Len(nodes) = 0 THEN << >>
    ELSE <<Token("start", nodes[1].nid, nodes[1].tag, nodes[1].attrs, "")>>
            \o (IF nodes[1].tag \in VoidTags THEN << >>
                ELSE (IF nodes[1].text = "" THEN << >>
                      ELSE <<Token("chars", 0, "", [n \in {} |-> ""], nodes[1].text)>>)
                     \o innerHTML(nodes[1].kids)
                     \o <<Token("end", 0, nodes[1].tag, [n \in {} |-> ""], "")>>)
            \o innerHTML(Tail(nodes))

\* line 5: temp.innerHTML written, the parser's tree construction for the
\* siblings at the head of tokens, up to an end tag or the end of the markup.
\* A line feed that directly follows the start tag of a pre, listing or
\* textarea is ignored.
RECURSIVE parseNodes(_)
parseNodes(tokens) ==
    IF Len(tokens) = 0 \/ tokens[1].type = "end"
    THEN [nodes |-> << >>, rest |-> tokens]
    ELSE IF tokens[1].type = "chars"
    THEN parseNodes(Tail(tokens))
    ELSE LET st == tokens[1]
             after == Tail(tokens)
             hasText == st.tag \notin VoidTags /\ Len(after) > 0 /\ after[1].type = "chars"
             data == IF hasText THEN after[1].data ELSE ""
             text == IF st.tag \in NewlineTags /\ Len(data) > 0 /\ SubSeq(data, 1, 1) = "\n"
                     THEN SubSeq(data, 2, Len(data))
                     ELSE data
             content == IF st.tag \in VoidTags
                        THEN [nodes |-> << >>, rest |-> after]
                        ELSE parseNodes(IF hasText THEN Tail(after) ELSE after)
             closed == IF st.tag \notin VoidTags /\ Len(content.rest) > 0
                       THEN Tail(content.rest)
                       ELSE content.rest
             siblings == parseNodes(closed)
         IN  [nodes |-> <<[nid |-> st.nid, tag |-> st.tag, attrs |-> st.attrs,
                           text |-> text, kids |-> content.nodes]>> \o siblings.nodes,
              rest |-> siblings.rest]

parseHTML(markup) == parseNodes(markup).nodes

\* every element of a fragment's markup, template content included
RECURSIVE Elements(_)
Elements(nodes) ==
    UNION {{nodes[i]} \cup Elements(nodes[i].kids) : i \in 1..Len(nodes)}

\* ------------------------------------------------- context and metadata

MAX_CONTEXT_LENGTH == 100
MIN_MEANINGFUL_TEXT_LENGTH == 10
MAX_PROMPT_LENGTH == 500
MAX_AGENTIC_STEPS == 3
ENABLE_AGENTIC_LOOP == TRUE

\* a slice that keeps the whole string
slice_all(s, n) == s

\* String.prototype.slice(0, n)
slice(s, n) == SubSeq(s, 1, IF Len(s) < n THEN Len(s) ELSE n)

\* the elements below nodes that a selector reaches, in document order
RECURSIVE querySelectorAll(_)
querySelectorAll(nodes) ==
    IF Len(nodes) = 0 THEN << >>
    ELSE <<nodes[1]>>
            \o (IF Reaches(nodes[1]) THEN querySelectorAll(nodes[1].kids) ELSE << >>)
            \o querySelectorAll(Tail(nodes))

\* Node.textContent: the element's text and that of its descendants (the
\* content of a template is not among them)
RECURSIVE textContent(_)
textContent(nodes) ==
    IF Len(nodes) = 0 THEN ""
    ELSE nodes[1].text
            \o (IF Reaches(nodes[1]) THEN textContent(nodes[1].kids) ELSE "")
            \o textContent(Tail(nodes))

\* a first line that is the whole text
firstLineOf_all(s) == s

\* allText.split('\n')[0]
firstLineOf(s) == IF indexOf(s, "\n") = 0 THEN s ELSE SubSeq(s, 1, indexOf(s, "\n") - 1)

\* part_001 lines 131-173
extractContextFromHTML(html) ==
    LET all == querySelectorAll(html)
        first(tag) == SelectSeq(all, LAMBDA el : el.tag = tag)
        headingText(i) ==
            LET hs == first("h" \o Ch(Digits, i + 1)) IN
            IF Len(hs) = 0 THEN "" ELSE trim(textContent(<<hs[1]>>))
        levels == {i \in 1..6 : headingText(i) # ""}
        titled == SelectSeq(all, LAMBDA el : hasAttribute(el, "data-title") \/ hasAttribute(el, "title"))
        title ==
            IF Len(titled) = 0 THEN ""
            ELSE IF hasAttribute(titled[1], "data-title") /\ titled[1].attrs["data-title"] # ""
                 THEN titled[1].attrs["data-title"]
                 ELSE IF hasAttribute(titled[1], "title") THEN titled[1].attrs["title"] ELSE ""
        paragraphs == SelectSeq(first("p"),
                          LAMBDA el : Len(trim(textContent(<<el>>))) > MIN_MEANINGFUL_TEXT_LENGTH)
        firstLine == trim(firstLineOf(trim(textContent(html))))
    IN  IF levels # {}
        THEN slice(headingText(CHOOSE i \in levels : \A j \in levels : i <= j), MAX_CONTEXT_LENGTH)
        ELSE IF trim(title) # "" THEN slice(trim(title), MAX_CONTEXT_LENGTH)
        ELSE IF Len(paragraphs) > 0
             THEN slice(trim(textContent(<<paragraphs[1]>>)), MAX_CONTEXT_LENGTH)
        ELSE IF firstLine # "" THEN slice(firstLine, MAX_CONTEXT_LENGTH)
        ELSE "Initial Experience"

NoMetadata == [k \in {} |-> 0]

\* JSON.parse on the attribute values that the model's fragments carry:
\* a record with ok = FALSE when parsing throws
IsNumeral(s) ==
    /\ Len(s) > 0
    /\ \A i \in 1..Len(s) : IndexIn(Ch(s, i), Digits) > 0
    /\ Len(s) > 1 => Ch(s, 1) # "0"

RECURSIVE parseDecimal(_)
parseDecimal(s) ==
    IF Len(s) = 0 THEN 0
    ELSE 10 * parseDecimal(SubSeq(s, 1, Len(s) - 1)) + IndexIn(Ch(s, Len(s)), Digits) - 1

JSONparse(s) ==
    IF IsNumeral(s) THEN [ok |-> TRUE, value |-> parseDecimal(s)]
    ELSE IF s = "{\"level\":1,\"gold\":10}"
         THEN [ok |-> TRUE, value |-> [k \in {"level", "gold"} |-> IF k = "level" THEN 1 ELSE 10]]
    ELSE IF s = "{\"interactionCount\":7,\"agenticLoop\":{\"totalSteps\":3,\"complexity\":\"high\"}}"
         THEN [ok |-> TRUE,
               value |-> ("interactionCount" :> 7 @@
                          "agenticLoop" :> [totalSteps |-> 3, complexity |-> "high"])]
    ELSE IF s = "{}"
         THEN [ok |-> TRUE, value |-> NoMetadata]
    ELSE [ok |-> FALSE, value |-> NULL]

\* an extraction that skips attributes that do not parse
extractMetadataFromHTML_firstParsable(html) ==
    LET found == SelectSeq(querySelectorAll(html),
                           LAMBDA el : /\ hasAttribute(el, "data-metadata")
                                       /\ JSONparse(el.attrs["data-metadata"]).ok) IN
    IF Len(found) > 0
    THEN JSONparse(found[1].attrs["data-metadata"]).value
    ELSE NoMetadata

\* part_001 lines 176-194
extractMetadataFromHTML(html) ==
    LET found == SelectSeq(querySelectorAll(html), LAMBDA el : hasAttribute(el, "data-metadata")) IN
    IF Len(found) > 0 /\ JSONparse(found[1].attrs["data-metadata"]).ok
    THEN JSONparse(found[1].attrs["data-metadata"]).value
    ELSE NoMetadata

\* a merge in which the keys of the first record win
spread_firstWins(a, b) ==
    [k \in (DOMAIN a) \cup (DOMAIN b) |-> IF k \in DOMAIN a THEN a[k] ELSE b[k]]

\* {...a, ...b}
spread(a, b) == [k \in (DOMAIN a) \cup (DOMAIN b) |-> IF k \in DOMAIN b THEN b[k] ELSE a[k]]

\* part_001 lines 197-221
collectInteractionMetadata(element, parentMetadata) ==
    LET dataNames == {n \in DOMAIN element.attrs :
                        /\ startsWith(n, "data-")
                        /\ n # "data-action-type"
                        /\ n # "data-alert-message"}
        key(n) == SubSeq(n, 6, Len(n))
        collected == [k \in {key(n) : n \in dataNames} |->
                        LET v == element.attrs["data-" \o k] IN
                        IF JSONparse(v).ok THEN JSONparse(v).value ELSE v]
        merged == spread(spread(parentMetadata, [k \in {"lastInteractionType"} |-> element.tag]),
                         collected)
        count == IF "interactionCount" \in DOMAIN merged THEN merged["interactionCount"] ELSE 0
    IN  spread(merged, [k \in {"interactionCount"} |-> count + 1])

RECURSIVE withoutChars(_, _)
withoutChars(s, chars) ==
    IF Len(s) = 0 THEN ""
    ELSE IF Len(s) = 1 THEN (IF s \in chars THEN "" ELSE s)
    ELSE withoutChars(SubSeq(s, 1, Len(s) \div 2), chars)
            \o withoutChars(SubSeq(s, Len(s) \div 2 + 1, Len(s)), chars)

\* part_001 lines 304-313
sanitizePromptText(text) ==
    LET cleaned == trim(withoutChars(slice(text, MAX_PROMPT_LENGTH), {"<", ">", "{", "}"})) IN
    IF text = "" \/ cleaned = "" THEN "unknown" ELSE cleaned

\* ------------------------------------------------------------ planExperience

\* part_001 lines 685-709
complexKeywords ==
    {"game", "rpg", "adventure", "simulation", "management", "builder",
     "puzzle", "quiz", "battle", "strategy", "inventory", "tabletop",
     "card", "deck", "board", "escape", "point-and-click", "turn-based",
     "form", "application", "system", "interface", "dashboard",
     "terminal", "command", "database", "archive", "ticket",
     "calendar", "scheduling", "analytics", "inbox", "messaging",
     "social", "feed", "profile", "marketplace", "shop", "store",
     "blog", "news", "article", "broadcast", "journal", "museum",
     "gallery", "exhibition", "portfolio", "timeline", "documentary",
     "tutorial", "lesson", "guide", "manual", "documentation",
     "recipe", "cookbook", "travel", "brochure",
     "interactive", "choose", "visual", "novel", "comic", "graphic",
     "exploration", "map", "location", "browser",
     "validation", "creation", "character", "retro", "vintage", "os"}

\* s.split(/\s+/): the maximal runs of characters that are not white space
RECURSIVE splitWords(_)
splitWords(s) ==
    LET t == trimStart(s)
        end == CHOOSE i \in 1..(Len(t) + 1) :
                   /\ i > Len(t) \/ Ch(t, i) \in SpaceChars
                   /\ \A j \in 1..(i - 1) : Ch(t, j) \notin SpaceChars
    IN  IF Len(t) = 0 THEN {} ELSE {SubSeq(t, 1, end - 1)} \cup splitWords(SubSeq(t, end, Len(t)))

\* a classification that looks for whole words only
isComplex_wholeWord(experienceType) ==
    \E word \in splitWords(toLowerCase(experienceType)) : word \in complexKeywords

\* part_001 lines 711-714
isComplex(experienceType) ==
    \E word \in splitWords(toLowerCase(experienceType)) :
        \E keyword \in complexKeywords : includes(word, keyword)

Min(a, b) == IF a < b THEN a ELSE b

\* part_001 lines 682-731; random is Math.floor(Math.random() * 2), 0 or 1
planExperience(theme, experienceType, random) ==
    LET steps == IF isComplex(experienceType) /\ ENABLE_AGENTIC_LOOP
                 THEN Min(MAX_AGENTIC_STEPS, 2 + random)
                 ELSE 1
    IN  [needsMultipleSteps |-> steps > 1,
         totalSteps |-> steps,
         complexity |-> IF isComplex(experienceType) THEN "high" ELSE "low"]

\* ------------------------------------------------------------------ bounds

MaxSequences == 3     \* generation sequences started in one run
MaxGenerated == 4     \* fragments the backend produces in one run
MaxInFlight == 2      \* generation sequences suspended at the same time
MaxNav == 3           \* platform entries a history-panel click may still push onto

\* ------------------------------------------------- the generation backend

Element(nid, tag, attrs, text, kids) ==
    [nid |-> nid, tag |-> tag, attrs |-> attrs, text |-> text, kids |-> kids]

\* What generateContent may resolve to: markup as the model's backend writes it.
RawGallery ==
    << Element(1, "h2", NoAttrs, "Gallery", << >>),
       Element(2, "a", ("href" :> "javascript:alert(1)" @@ "data-gold" :> "25"
                          @@ "onmouseover" :> "track()"), "Enter", << >>),
       Element(3, "script", NoAttrs, "steal()", << >>) >>

RawDice ==
    << Element(1, "div", ("data-metadata" :> "{\"level\":1,\"gold\":10}"), "",
           << Element(2, "button", ("onclick" :> "alert('Roll')"), "Roll the dice", << >>) >>) >>

\* text longer than MAX_CONTEXT_LENGTH
LongText ==
    LET ten == "The vault " IN
    ten \o ten \o ten \o ten \o ten \o ten \o ten \o ten \o ten \o ten \o ten \o "ends."

RawLedger ==
    << Element(1, "h1",
               ("data-metadata" :>
                "{\"interactionCount\":7,\"agenticLoop\":{\"totalSteps\":3,\"complexity\":\"high\"}}"),
               "Ledger", << >>),
       Element(2, "a", ("href" :> "javascript:void(0)"), LongText, << >>) >>

\* the gallery with a data-metadata attribute that JSON.parse rejects
RawBroken ==
    [RawGallery EXCEPT ![1].attrs = ("data-metadata" :> "{level:1")]

BackendFragments == {RawGallery, RawDice, RawLedger, RawBroken}

\* What generateTheme may resolve to.
BackendThemes == {"Haunted lighthouse"}

\* The runs explored: in each, generateContent resolves to one fragment,
\* generateExperienceType to one kind, and Math.random() to one value.
BackendRuns ==
    {[html |-> RawGallery, experienceType |-> "short poem", random |-> 0],
     [html |-> RawDice, experienceType |-> "short poem", random |-> 1],
     [html |-> RawDice, experienceType |-> "turn-based battle system", random |-> 0],
     [html |-> RawBroken, experienceType |-> "turn-based battle system", random |-> 1],
     [html |-> RawLedger, experienceType |-> "short poem", random |-> 0]}

\* The keys a user may type; validate() can succeed only for "sk-live".
TypedKeys == {"", "pk-123", " sk-live "}

\* ------------------------------------------------------ the session: state

Loading == [kind |-> "loading", html |-> << >>, contextId |-> "", metadata |-> NoMetadata, id |-> 0]
Failed(kind) == [kind |-> kind, html |-> << >>, contextId |-> "", metadata |-> NoMetadata, id |-> 0]

\* The state object of a platform entry: null, or {historyIndex: n} as
\* <<n, shown>>, where shown records the id of the entry of the log at index n
\* at the moment the state was written (0 when the log had none).
NoState == << >>
HistoryState(index, shown) == <<index, shown>>

\* part_001 lines 370-385: state, and the page as loaded
SessionStart ==
    /\ currentScreen = "warning"
    /\ apiKey = NULL
    /\ aiProvider = NULL
    /\ validating = NULL
    /\ history = << >>
    /\ currentHistoryIndex = -1
    /\ agenticLoop = [currentStep |-> 0, totalSteps |-> 0, stepHistory |-> << >>]
    /\ regenerateDisabled = FALSE
    /\ surface = [kind |-> "blank", html |-> << >>, contextId |-> "", metadata |-> NoMetadata, id |-> 0]
    /\ historyList = 0
    /\ generated = 0
    /\ tasks = {}
    /\ started = 0
    /\ committed = 0

\* part_001 lines 370-385 and the document as loaded: the platform holds the
\* document's entry, without a state object
SessionInit ==
    /\ SessionStart
    /\ navStack = <<NoState>>
    /\ navPos = 1
    /\ backend \in BackendRuns

\* no function of the harness is being called
NoCall ==
    /\ callArgs = << >>
    /\ callResult = NoResult
    /\ callPc = "idle"

Init ==
    /\ SessionInit
    /\ sanIn = << >>
    /\ sanOut = NoResult
    /\ sanAgain = NoResult
    /\ sanPc = "idle"
    /\ NoCall

\* ---------------------------------------------------- the session: history

\* window.history.pushState(state): the entries after the current one are
\* dropped, the new entry becomes the current one
pushState(state) ==
    /\ navStack' = Append(SubSeq(navStack, 1, navPos), state)
    /\ navPos' = navPos + 1

\* window.history.replaceState(state)
replaceState(state) ==
    /\ navStack' = [navStack EXCEPT ![navPos] = state]
    /\ navPos' = navPos

\* part_001 lines 608-629: the fragment is sanitized again and mounted, and
\* its links and buttons get listeners bound to this experience
displayExperience(experience) ==
    surface' = [kind |-> "entry",
                html |-> sanitizeHTML(experience.html),
                contextId |-> experience.contextId,
                metadata |-> experience.metadata,
                id |-> experience.id]

\* part_001 lines 631-674
updateHistoryUI == historyList' = Len(history')

\* a commit that keeps the entries after the cursor
truncated_all(log, cursor) == log

\* part_001 lines 559-561: the log up to and including the cursor
truncated(log, cursor) ==
    IF cursor < Len(log) - 1 THEN SubSeq(log, 1, cursor + 1) ELSE log

\* a commit that replaces the current platform entry every time
addToHistory_alwaysReplaces(experience) ==
    /\ history' = Append(truncated(history, currentHistoryIndex),
                         [experience EXCEPT
                             !.id = committed + 1,
                             \* undefined when no step was recorded: << >> here
                             !.agenticSteps = IF Len(agenticLoop'.stepHistory) > 0
                                              THEN agenticLoop'.stepHistory
                                              ELSE << >>])
    /\ currentHistoryIndex' = Len(history') - 1
    /\ committed' = committed + 1
    /\ replaceState(HistoryState(currentHistoryIndex', committed + 1))
    /\ updateHistoryUI

\* part_001 lines 557-591
addToHistory(experience) ==
    /\ history' = Append(truncated(history, currentHistoryIndex),
                         [experience EXCEPT
                             !.id = committed + 1,
                             \* undefined when no step was recorded: << >> here
                             !.agenticSteps = IF Len(agenticLoop'.stepHistory) > 0
                                              THEN agenticLoop'.stepHistory
                                              ELSE << >>])
    /\ currentHistoryIndex' = Len(history') - 1
    /\ committed' = committed + 1
    /\ IF currentHistoryIndex' = 0
       THEN replaceState(HistoryState(currentHistoryIndex', committed + 1))
       ELSE pushState(HistoryState(currentHistoryIndex', committed + 1))
    /\ updateHistoryUI

\* a navigation that renders the entry and leaves the cursor where it was
navigateToHistoryIndex_keepsCursor(index) ==
    /\ currentHistoryIndex' = currentHistoryIndex
    /\ displayExperience(history[index + 1])
    /\ history' = history
    /\ updateHistoryUI

\* part_001 lines 593-606, for an index in range
navigateToHistoryIndex(index) ==
    /\ currentHistoryIndex' = index
    /\ displayExperience(history[index + 1])
    /\ history' = history
    /\ updateHistoryUI

\* part_001 line 594: the indices navigateToHistoryIndex returns on
outOfRange(index) == index < 0 \/ index >= Len(history)

\* --------------------------------------------- the session: the user's events

\* part_001 lines 427-429
ProceedClick ==
    /\ currentScreen = "warning"
    /\ currentScreen' = "apikey"
    /\ UNCHANGED <<apiKey, aiProvider, validating, history, currentHistoryIndex, agenticLoop,
                   regenerateDisabled, surface, historyList, navStack, navPos, tasks,
                   started, committed, backend, generated, harnessVars>>

\* part_001 lines 452-454
BackClick ==
    /\ currentScreen = "apikey"
    /\ currentScreen' = "warning"
    /\ UNCHANGED <<apiKey, aiProvider, validating, history, currentHistoryIndex, agenticLoop,
                   regenerateDisabled, surface, historyList, navStack, navPos, tasks,
                   started, committed, backend, generated, harnessVars>>

\* part_001 lines 456-489 and 540-545: the click on Start up to the await of
\* validate(); a key that is empty or does not start with "sk-" returns early
StartClick ==
    \E typed \in TypedKeys :
        /\ currentScreen = "apikey"
        /\ validating = NULL
        /\ started < MaxSequences
        /\ Cardinality(tasks) < MaxInFlight
        /\ IF trim(typed) = "" \/ ~startsWith(trim(typed), "sk-")
           THEN UNCHANGED <<aiProvider, validating>>
           ELSE /\ aiProvider' = trim(typed)
                /\ validating' = trim(typed)
        /\ UNCHANGED <<currentScreen, apiKey, history, currentHistoryIndex, agenticLoop,
                       regenerateDisabled, surface, historyList, navStack, navPos, tasks,
                       started, committed, backend, generated, harnessVars>>

\* the ids of the entries of a log, in order
idsOf(log) == [k \in 1..Len(log) |-> log[k].id]

\* A suspended call of generateExperience or handleInteraction. These fields
\* record the call's history: log0 and cursor0 the log and the cursor at the
\* moment it was called, parentCount the interactionCount of the mounted
\* entry at that moment (0 when it has none), requested the steps whose
\* content has been requested so far.
Task(seq, fn, pc, theme, experienceType, plan, i, steps, contextId, metadata, from) ==
    [seq |-> seq, fn |-> fn, pc |-> pc, theme |-> theme, experienceType |-> experienceType,
     totalSteps |-> plan.totalSteps, complexity |-> plan.complexity, i |-> i, steps |-> steps,
     contextId |-> contextId, metadata |-> metadata, from |-> from,
     log0 |-> idsOf(history), cursor0 |-> currentHistoryIndex,
     parentCount |-> IF "interactionCount" \in DOMAIN surface.metadata
                     THEN surface.metadata["interactionCount"] ELSE 0,
     requested |-> IF pc = "step" THEN <<i>> ELSE << >>]

NoPlan == [totalSteps |-> 0, complexity |-> "low"]

\* part_001 lines 920-933: generateExperience up to the await of generateTheme()
generateExperience ==
    /\ agenticLoop' = [agenticLoop EXCEPT !.stepHistory = << >>, !.currentStep = 0]
    /\ surface' = Loading
    /\ regenerateDisabled' = TRUE
    /\ tasks' = tasks \cup {Task(started + 1, "generateExperience", "theme", "", "", NoPlan, 0,
                                 << >>, "", NoMetadata, 0)}
    /\ started' = started + 1

\* part_001 lines 489-496 and 546-553: validate() settles
ValidateSettled ==
    \E ok \in BOOLEAN :
        /\ validating # NULL
        /\ ok => validating = "sk-live"
        /\ validating' = NULL
        /\ IF ok
           THEN /\ apiKey' = validating
                /\ currentScreen' = "experience"
                /\ generateExperience
           ELSE UNCHANGED <<apiKey, currentScreen, agenticLoop, surface, regenerateDisabled,
                            tasks, started>>
        /\ UNCHANGED <<aiProvider, history, currentHistoryIndex, historyList, navStack, navPos,
                       committed, backend, generated, harnessVars>>

\* part_001 lines 500-502
RegenerateClick ==
    /\ currentScreen = "experience"
    /\ ~regenerateDisabled
    /\ started < MaxSequences
    /\ Cardinality(tasks) < MaxInFlight
    /\ generateExperience
    /\ UNCHANGED <<currentScreen, apiKey, aiProvider, validating, history, currentHistoryIndex,
                   historyList, navStack, navPos, committed, backend, generated, harnessVars>>

\* a reset that empties the log and leaves the cursor where it was
ResetClick_keepsCursor ==
    \E confirm \in BOOLEAN :
        /\ currentScreen = "experience"
        /\ IF confirm
           THEN /\ apiKey' = NULL
                /\ history' = << >>
                /\ currentScreen' = "warning"
           ELSE UNCHANGED <<apiKey, history, currentScreen>>
        /\ UNCHANGED <<currentHistoryIndex, aiProvider, validating, agenticLoop,
                       regenerateDisabled, surface, historyList, navStack, navPos, tasks,
                       started, committed, backend, generated, harnessVars>>

\* part_001 lines 504-515
ResetClick ==
    \E confirm \in BOOLEAN :
        /\ currentScreen = "experience"
        /\ IF confirm
           THEN /\ apiKey' = NULL
                /\ history' = << >>
                /\ currentHistoryIndex' = -1
                /\ currentScreen' = "warning"
           ELSE UNCHANGED <<apiKey, history, currentHistoryIndex, currentScreen>>
        /\ UNCHANGED <<aiProvider, validating, agenticLoop, regenerateDisabled, surface,
                       historyList, navStack, navPos, tasks, started, committed, backend, generated, harnessVars>>

\* a navigation that clears the metadata of the entry it shows
navigate_clearsMetadata(index) ==
    IF outOfRange(index)
    THEN UNCHANGED <<history, currentHistoryIndex, surface, historyList>>
    ELSE /\ currentHistoryIndex' = index
         /\ displayExperience(history[index + 1])
         /\ history' = [history EXCEPT ![index + 1].metadata = NoMetadata]
         /\ updateHistoryUI

\* part_001 lines 593-606
navigate(index) ==
    IF outOfRange(index)
    THEN UNCHANGED <<history, currentHistoryIndex, surface, historyList>>
    ELSE navigateToHistoryIndex(index)

\* part_001 lines 659-673: a click on an item of the rendered history list
HistoryItemClick ==
    \E index \in 0..(historyList - 1) :
        /\ currentScreen = "experience"
        /\ index # currentHistoryIndex
        /\ navPos < MaxNav
        /\ pushState(HistoryState(index, IF index < Len(history)
                                         THEN history[index + 1].id ELSE 0))
        /\ navigate(index)
        /\ UNCHANGED <<currentScreen, apiKey, aiProvider, validating, agenticLoop,
                       regenerateDisabled, tasks, started, committed, backend, generated, harnessVars>>

\* a handler that takes a state without historyIndex for index 0
PopState_defaultsToFirst ==
    \E to \in {navPos - 1, navPos + 1} :
        /\ to >= 1 /\ to <= Len(navStack)
        /\ navPos' = to
        /\ navStack' = navStack
        /\ navigate(IF navStack[to] # NoState THEN navStack[to][1] ELSE 0)
        /\ UNCHANGED <<currentScreen, apiKey, aiProvider, validating, agenticLoop,
                       regenerateDisabled, tasks, started, committed, backend, generated, harnessVars>>

\* part_001 lines 523-527: the browser's back or forward button moves to
\* another platform entry of this document and delivers its state
PopState ==
    \E to \in {navPos - 1, navPos + 1} :
        /\ to >= 1 /\ to <= Len(navStack)
        /\ navPos' = to
        /\ navStack' = navStack
        /\ IF navStack[to] # NoState
           THEN navigate(navStack[to][1])
           ELSE UNCHANGED <<history, currentHistoryIndex, surface, historyList>>
        /\ UNCHANGED <<currentScreen, apiKey, aiProvider, validating, agenticLoop,
                       regenerateDisabled, tasks, started, committed, backend, generated, harnessVars>>

\* ------------------------------------ the session: generation sequences

\* the links and buttons of the mounted fragment (part_001 lines 614, 622)
Clickable == {el \in Elements(surface.html) :
                 /\ el.tag \in {"a", "button"}
                 /\ \E i \in 1..Len(querySelectorAll(surface.html)) :
                        querySelectorAll(surface.html)[i] = el}

\* a follow-up that takes as many steps as an initial generation may
interactionSteps_uncapped == MAX_AGENTIC_STEPS

\* part_001 lines 1056: the steps of a follow-up on a complex experience
interactionSteps == Min(2, MAX_AGENTIC_STEPS - 1)

\* part_001 lines 1012-1110 and 1130-1165: the click on a link or button of
\* the mounted fragment, up to the await of the first generateContent()
LinkClick ==
    \E element \in Clickable :
        LET elementText == sanitizePromptText(textContent(<<element>>))
            newContextId == IF surface.contextId # ""
                            THEN surface.contextId \o " -> " \o elementText
                            ELSE elementText
            newMetadata == collectInteractionMetadata(element, surface.metadata)
            wasComplexExperience ==
                /\ "agenticLoop" \in DOMAIN surface.metadata
                /\ surface.metadata["agenticLoop"].complexity = "high"
            shouldUseAgenticLoop == wasComplexExperience /\ ENABLE_AGENTIC_LOOP
            plan == [totalSteps |-> IF shouldUseAgenticLoop THEN interactionSteps ELSE 1,
                     complexity |-> IF shouldUseAgenticLoop THEN "high" ELSE "low"]
        IN
        /\ currentScreen = "experience"
        /\ surface.kind = "entry"
        /\ started < MaxSequences
        /\ Cardinality(tasks) < MaxInFlight
        /\ started' = started + 1
        /\ IF shouldUseAgenticLoop /\ interactionSteps < 1
           THEN \* no step runs and stepResults[-1].html throws: catch and finally
                /\ agenticLoop' = [currentStep |-> 0, totalSteps |-> interactionSteps,
                                   stepHistory |-> << >>]
                /\ surface' = Failed("navigationFailed")
                /\ regenerateDisabled' = FALSE
                /\ tasks' = tasks
           ELSE /\ agenticLoop' =
                      [currentStep |-> IF shouldUseAgenticLoop THEN 1 ELSE 0,
                       totalSteps |-> IF shouldUseAgenticLoop THEN interactionSteps
                                      ELSE agenticLoop.totalSteps,
                       stepHistory |-> << >>]
                /\ surface' = Loading
                /\ regenerateDisabled' = TRUE
                /\ tasks' = tasks \cup
                      {Task(started + 1, "handleInteraction", "step", "", "", plan, 1, << >>,
                            newContextId, newMetadata, surface.id)}
        /\ UNCHANGED <<currentScreen, apiKey, aiProvider, validating, history,
                       currentHistoryIndex, historyList, navStack, navPos, committed,
                       backend, generated, harnessVars>>

\* part_001 lines 933-937: generateTheme() resolves
ThemeResolved ==
    \E t \in tasks, theme \in BackendThemes :
        /\ t.pc = "theme"
        /\ tasks' = (tasks \ {t}) \cup {[t EXCEPT !.pc = "type", !.theme = theme]}
        /\ surface' = Loading
        /\ UNCHANGED <<currentScreen, apiKey, aiProvider, validating, history,
                       currentHistoryIndex, agenticLoop, regenerateDisabled, historyList,
                       navStack, navPos, started, committed, backend, generated, harnessVars>>

\* part_001 lines 937-949 and 742-909: generateExperienceType() resolves, the
\* experience is planned and the first step's content is requested
TypeResolved ==
    \E t \in tasks, experienceType \in {backend.experienceType}, random \in {backend.random} :
        LET plan == planExperience(t.theme, experienceType, random) IN
        /\ t.pc = "type"
        /\ tasks' = (tasks \ {t}) \cup
              {[t EXCEPT !.pc = "step", !.experienceType = experienceType,
                         !.totalSteps = plan.totalSteps, !.complexity = plan.complexity,
                         !.i = 1, !.requested = <<1>>]}
        /\ agenticLoop' = [agenticLoop EXCEPT !.totalSteps = plan.totalSteps, !.currentStep = 1]
        /\ surface' = Loading
        /\ UNCHANGED <<currentScreen, apiKey, aiProvider, validating, history,
                       currentHistoryIndex, regenerateDisabled, historyList, navStack, navPos,
                       started, committed, backend, generated, harnessVars>>

\* a loop that skips a step
nextStep_skips(i) == i + 2

\* part_001 lines 947 and 1060: i++ of the loop over the steps
nextStep(i) == i + 1

\* a step record that keeps the backend's markup as it arrived
stepRecord_raw(t, generatedHTML) ==
    [seq |-> t.seq, stepNumber |-> t.i, totalSteps |-> t.totalSteps, html |-> generatedHTML,
     contextSummary |-> slice(extractContextFromHTML(generatedHTML), 100)]

\* part_001 lines 909-916 and 1110-1119: the record of a step whose content
\* has arrived (seq names the sequence that produced it)
stepRecord(t, generatedHTML) ==
    LET sanitizedHTML == sanitizeHTML(generatedHTML) IN
    [seq |-> t.seq, stepNumber |-> t.i, totalSteps |-> t.totalSteps, html |-> sanitizedHTML,
     contextSummary |-> slice(extractContextFromHTML(sanitizedHTML), 100)]

\* part_001 lines 954-981: what generateExperience commits
generatedExperience(t, steps) ==
    LET sanitizedHTML == steps[Len(steps)].html IN
    [id |-> 0, agenticSteps |-> << >>,
     html |-> sanitizedHTML,
     contextId |-> extractContextFromHTML(sanitizedHTML),
     metadata |-> spread(extractMetadataFromHTML(sanitizedHTML),
                         ("theme" :> t.theme @@ "experienceType" :> t.experienceType @@
                          "agenticLoop" :> [totalSteps |-> t.totalSteps,
                                            complexity |-> t.complexity]))]

\* part_001 lines 1125-1126 and 1165-1183: what handleInteraction commits
interactionExperience(t, steps, generatedHTML) ==
    LET sanitizedHTML == sanitizeHTML(IF t.complexity = "high"
                                   THEN steps[Len(steps)].html
                                   ELSE generatedHTML) IN
    [id |-> 0, agenticSteps |-> << >>,
     html |-> sanitizedHTML,
     contextId |-> t.contextId,
     metadata |-> spread(t.metadata, extractMetadataFromHTML(sanitizedHTML))]

\* a commit whose finally block leaves the regenerate control as it is
commit_leavesDisabled(experience) ==
    /\ addToHistory(experience)
    /\ displayExperience([experience EXCEPT !.id = committed + 1])
    /\ regenerateDisabled' = regenerateDisabled

\* part_001 lines 975-990 and 1177-1190, then finally: the entry is committed
\* and displayed
commit(experience) ==
    /\ addToHistory(experience)
    /\ displayExperience([experience EXCEPT !.id = committed + 1])
    /\ regenerateDisabled' = FALSE

\* part_001 lines 947-952, 954-990, 1004-1008 (generateExperience) and
\* 1060-1123, 1165-1190, 1208-1212 (handleInteraction): generateContent()
\* resolves for the current step
StepResolved ==
    \E t \in tasks, generatedHTML \in {backend.html} :
        \E looping \in {t.fn = "generateExperience" \/ t.complexity = "high"} :
        \E record \in {stepRecord(t, generatedHTML)} :
        \E steps \in {IF looping THEN Append(t.steps, record) ELSE t.steps} :
        \E recorded \in {IF looping THEN Append(agenticLoop.stepHistory, record)
                                    ELSE agenticLoop.stepHistory} :
        /\ t.pc = "step"
        /\ generated < MaxGenerated
        /\ generated' = generated + 1
        /\ IF t.i < t.totalSteps
           THEN /\ tasks' = (tasks \ {t}) \cup
                      {[t EXCEPT !.i = nextStep(t.i), !.steps = steps,
                                 !.requested = Append(t.requested, nextStep(t.i))]}
                /\ agenticLoop' = [agenticLoop EXCEPT !.stepHistory = recorded,
                                                      !.currentStep = nextStep(t.i)]
                /\ surface' = Loading
                /\ UNCHANGED <<history, currentHistoryIndex, regenerateDisabled, historyList,
                               navStack, navPos, committed>>
           ELSE /\ tasks' = tasks \ {t}
                /\ agenticLoop' = [agenticLoop EXCEPT !.stepHistory = recorded,
                                                      !.currentStep = 0]
                /\ \E experience \in {IF t.fn = "generateExperience"
                                       THEN generatedExperience(t, steps)
                                       ELSE interactionExperience(t, steps, generatedHTML)} :
                       commit(experience)
        /\ UNCHANGED <<currentScreen, apiKey, aiProvider, validating, started, backend, harnessVars>>

\* a failure handler that also clears the log
RequestFailed_clears ==
    \E t \in tasks :
        /\ tasks' = tasks \ {t}
        /\ surface' = Failed(IF t.fn = "generateExperience"
                             THEN "generationFailed" ELSE "navigationFailed")
        /\ regenerateDisabled' = FALSE
        /\ agenticLoop' = [agenticLoop EXCEPT !.currentStep = 0]
        /\ history' = << >>
        /\ currentHistoryIndex' = -1
        /\ UNCHANGED <<currentScreen, apiKey, aiProvider, validating, historyList, navStack,
                       navPos, started, committed, backend, generated, harnessVars>>

\* part_001 lines 992-1008 and 1192-1212: a backend call of the sequence
\* rejects; catch shows the failure panel, finally re-enables the control
RequestFailed ==
    \E t \in tasks :
        /\ tasks' = tasks \ {t}
        /\ surface' = Failed(IF t.fn = "generateExperience"
                             THEN "generationFailed" ELSE "navigationFailed")
        /\ regenerateDisabled' = FALSE
        /\ agenticLoop' = [agenticLoop EXCEPT !.currentStep = 0]
        /\ UNCHANGED <<currentScreen, apiKey, aiProvider, validating, history,
                       currentHistoryIndex, historyList, navStack, navPos, started, committed,
                       backend, generated, harnessVars>>

Next ==
    \/ ProceedClick
    \/ BackClick
    \/ StartClick
    \/ ValidateSettled
    \/ RegenerateClick
    \/ ResetClick
    \/ HistoryItemClick
    \/ PopState
    \/ LinkClick
    \/ ThemeResolved
    \/ TypeResolved
    \/ StepResolved
    \/ RequestFailed

Spec == Init /\ [][Next]_vars

\* The session of a document that was loaded on a URL reached by a change of
\* the URL's fragment: the platform holds two entries of this document, and
\* neither carries a state object. generateContent resolves to RawDice.
InitNav ==
    /\ SessionStart
    /\ navStack = <<NoState, NoState>>
    /\ navPos = 2
    /\ backend = [html |-> RawDice, experienceType |-> "short poem", random |-> 1]
    /\ sanIn = << >>
    /\ sanOut = NoResult
    /\ sanAgain = NoResult
    /\ sanPc = "idle"
    /\ NoCall

SpecNav == InitNav /\ [][Next]_vars

\* The session without reset and without failing requests: commits,
\* history-panel navigations and platform back/forward signals only.
NextHistory ==
    \/ ProceedClick
    \/ StartClick
    \/ ValidateSettled
    \/ RegenerateClick
    \/ HistoryItemClick
    \/ PopState
    \/ LinkClick
    \/ ThemeResolved
    \/ TypeResolved
    \/ StepResolved

SpecHistory == Init /\ [][NextHistory]_vars

\* sequence seq is suspended at one of its awaits
InFlight(seq) == \E t \in tasks : t.seq = seq

\* part_001 lines 909, 933, 937, 949, 1110, 1165: the pending backend call of
\* sequence seq resolves or rejects and the sequence runs on to its next
\* await or to its end
Settles(seq) ==
    /\ InFlight(seq)
    /\ RequestFailed \/ ThemeResolved \/ TypeResolved \/ StepResolved
    /\ \E t \in tasks : t.seq = seq /\ t \notin tasks'

\* The session in which one multi-step backend run answers and every pending
\* backend call of every sequence is eventually settled: the promise of each
\* await in generateExperience and handleInteraction resolves or rejects.
InitLive ==
    /\ SessionStart
    /\ navStack = <<NoState>>
    /\ navPos = 1
    /\ backend = [html |-> RawDice, experienceType |-> "turn-based battle system", random |-> 0]
    /\ sanIn = << >>
    /\ sanOut = NoResult
    /\ sanAgain = NoResult
    /\ sanPc = "idle"
    /\ NoCall

\* the events that start, advance or end a sequence, and the screen changes:
\* the navigation events, which leave every suspended call as it is, are left
\* out
NextLive ==
    \/ ProceedClick
    \/ BackClick
    \/ StartClick
    \/ ValidateSettled
    \/ RegenerateClick
    \/ ResetClick
    \/ LinkClick
    \/ ThemeResolved
    \/ TypeResolved
    \/ StepResolved
    \/ RequestFailed

SpecLive ==
    /\ InitLive
    /\ [][NextLive]_vars
    /\ \A seq \in 1..MaxSequences : WF_vars(Settles(seq))

\* --------------------------------------------- sanitizeHTML on its own inputs

MaxNesting == 1       \* container elements around an element of SanElements

\* onclick values: the handlers of the alert grammar and handlers outside it
SanHandlers ==
    {"alert(Math.floor(Math.random()*20)+1)",
     "alert(document.cookie)",
     "alert(1);alert(2)",
     "alert(eval('1'))",
     "alert('Rolled a 20')",
     " alert ( 'hi' ) ",
     "alert(\\u0065val('1'))",
     "alert(Math.exp(1))",
     "alert()",
     "roll()",
     "alert(localStorage.getItem('k'))",
     "alert(window['name'])",
     "alert(\\x77indow.name)",
     "alert(import('m'))",
     "alert(1)+alert(2)",
     "alert(1),fetch('/x')",
     "alert(Math['exp'](1))",
     "alert(Math['constructor'])",
     "alert(Math.PI)"}

\* attribute values that name a resource
SanURIs ==
    {"javascript:alert(1)", "  JavaScript:alert(1)", "data:text/html,<b>x</b>",
     "VBScript:msgbox(1)", "https://example.com/a.png", "#top", "page.html",
     "/javascript:void"}

\* the two directive attributes, as input may already carry them
Planted == ("data-action-type" :> "alert" @@ "data-alert-message" :> "pwned")

SanElements ==
    {Element(1, "button", ("onclick" :> h), "Roll", << >>) : h \in SanHandlers}
    \cup {Element(1, "button", ("onclick" :> h) @@ Planted, "Roll", << >>) :
            h \in {"alert(document.cookie)", "roll()"}}
    \cup {Element(1, tag, ("onclick" :> "alert('hi')"), "Roll", << >>) : tag \in {"div", "a"}}
    \cup {Element(1, "input", Planted, "", << >>),
          Element(1, "button", Planted, "Roll", << >>),
          Element(1, "span", ("data-alert-message" :> "pwned"), "x", << >>)}
    \cup {Element(1, "a", ("href" :> u), "Enter", << >>) : u \in SanURIs}
    \cup {Element(1, "img", ("src" :> u @@ "onerror" :> "steal()"), "", << >>) : u \in SanURIs}
    \cup {Element(1, "iframe", ("src" :> u), "", << >>) : u \in SanURIs}
    \cup {Element(1, "form", ("action" :> "javascript:alert(1)"), "", << >>),
          Element(1, "button", ("formaction" :> "javascript:alert(1)" @@ "form" :> "f"), "Go", << >>),
          Element(1, "object", ("data" :> "data:text/html,<b>x</b>"), "", << >>),
          Element(1, "a", ("xlink:href" :> "javascript:alert(1)"), "Enter", << >>),
          Element(1, "script", NoAttrs, "steal()", << >>),
          Element(1, "script", ("src" :> "https://example.com/x.js"), "", << >>),
          Element(1, "p", ("onmouseover" :> "track()" @@ "title" :> "A hint"), "Plain text", << >>),
          Element(1, "pre", NoAttrs, "Roll 1d20", << >>),
          Element(1, "pre", NoAttrs, "\n  /\\\n /__\\", << >>),
          Element(1, "textarea", ("onfocus" :> "track()"), "\n", << >>)}

\* the fragments made of one element of SanElements inside n containers
RECURSIVE SanFragments(_)
SanFragments(n) ==
    IF n = 0 THEN {<<el>> : el \in SanElements}
    ELSE SanFragments(n - 1)
            \cup {<<Element(n + 1, tag, NoAttrs, "", f)>> :
                    tag \in {"div", "template"}, f \in SanFragments(n - 1)}

\* the inputs: text without any element, and the fragments above
SanInputs == { << >> } \cup SanFragments(MaxNesting)

InitSan ==
    /\ SessionInit
    /\ sanIn \in SanInputs
    /\ sanOut = NoResult
    /\ sanAgain = NoResult
    /\ sanPc = "ready"
    /\ NoCall

\* part_001 lines 2-122: one call of sanitizeHTML
Sanitize ==
    /\ sanPc = "ready"
    /\ sanOut' = sanitizeHTML(sanIn)
    /\ sanPc' = "done"
    /\ UNCHANGED <<sessionVars, sanIn, sanAgain, callVars>>

\* part_001 lines 608-611 and 1125: the markup that sanitizeHTML returned is
\* passed to sanitizeHTML again
Resanitize ==
    /\ sanPc = "done"
    /\ sanAgain' = sanitizeHTML(parseHTML(innerHTML(sanOut)))
    /\ sanPc' = "again"
    /\ UNCHANGED <<sessionVars, sanIn, sanOut, callVars>>

NextSan == Sanitize \/ Resanitize

SpecSan == InitSan /\ [][NextSan]_vars

\* ------------------- the context, metadata and planning functions on their own inputs

\* the elements a user may activate: links and buttons with data attributes
\* (attribute names are lower case, as the HTML parser leaves them)
MetaElements ==
    {Element(1, "a", ("href" :> "#" @@ "data-gold" :> "25"), "Enter", << >>),
     Element(1, "button", NoAttrs, "Roll", << >>),
     Element(1, "button", ("data-gold" :> "25" @@ "data-action-type" :> "alert"
                             @@ "data-alert-message" :> "Rolled"), "Roll", << >>),
     Element(1, "a", ("data-name" :> "north gate" @@ "title" :> "Gate"), "Go north", << >>),
     Element(1, "a", ("data-level" :> "2" @@ "data-gold" :> "0"), "Descend", << >>),
     Element(1, "button", ("data-interactioncount" :> "40"), "Count", << >>),
     Element(1, "a", ("data-metadata" :> "{\"level\":1,\"gold\":10}"), "Load", << >>),
     Element(1, "a", ("data-name" :> "{north"), "Go", << >>)}

\* the metadata of the entry the element belongs to
MetaParents ==
    {NoMetadata,
     ("level" :> 1 @@ "gold" :> 10),
     ("gold" :> 10),
     ("level" :> 1 @@ "gold" :> 10 @@ "interactionCount" :> 1 @@ "lastInteractionType" :> "a"),
     ("interactionCount" :> 7 @@ "lastInteractionType" :> "button"),
     ("name" :> "south gate" @@ "theme" :> "Haunted lighthouse"),
     ("name" :> "south gate" @@ "gold" :> 10 @@ "interactionCount" :> 2
        @@ "lastInteractionType" :> "a")}

MetaCalls ==
    {[fn |-> "collectInteractionMetadata", element |-> el, parentMetadata |-> parent] :
        el \in MetaElements, parent \in MetaParents}

\* the themes and kinds the backend may name, and Math.floor(Math.random() * 2)
PlanThemes == {"Haunted lighthouse", "Modern Art", "adventure game"}

PlanKinds ==
    {"turn-based battle system", "Turn-Based Battle System", "static gallery", "museum tour",
     "short poem", "haiku", "love letter", "cosmic horror tale", "videogames",
     "weather  report", ""}

PlanCalls ==
    {[fn |-> "planExperience", theme |-> theme, experienceType |-> kind, random |-> random] :
        theme \in PlanThemes, kind \in PlanKinds, random \in {0, 1}}

\* the fragments extractContextFromHTML is called on: an optional heading, an
\* optional element with a title, an optional paragraph
CtxHeadings ==
    {<< >>,
     <<Element(1, "h1", NoAttrs, "  ", << >>)>>,
     <<Element(1, "h1", NoAttrs, " ", << >>), Element(2, "h3", NoAttrs, " Gallery\n", << >>)>>,
     <<Element(1, "h2", NoAttrs, LongText, << >>)>>,
     <<Element(1, "h1", NoAttrs, " ", << >>), Element(2, "h1", NoAttrs, "Atlas", << >>)>>}

CtxTitles ==
    {<< >>,
     <<Element(3, "div", ("title" :> ""), "", << >>)>>,
     <<Element(3, "div", ("data-title" :> "" @@ "title" :> " Vault "), "", << >>)>>,
     <<Element(3, "div", ("data-title" :> LongText), "", << >>)>>}

CtxParagraphs ==
    {<< >>,
     <<Element(4, "p", NoAttrs, "Hello", << >>)>>,
     <<Element(4, "p", NoAttrs, "     ", << >>)>>,
     <<Element(4, "p", NoAttrs, "a\nb c", << >>)>>,
     <<Element(4, "p", NoAttrs, "0123456789", << >>)>>,
     <<Element(4, "p", NoAttrs, "Hello", << >>), Element(5, "p", NoAttrs, " Hello world ", << >>)>>,
     <<Element(4, "p", NoAttrs, LongText, << >>)>>,
     <<Element(4, "span", NoAttrs, "  " \o LongText, << >>)>>}

ContextCalls ==
    {[fn |-> "extractContextFromHTML", html |-> h \o t \o para] :
        h \in CtxHeadings, t \in CtxTitles, para \in CtxParagraphs}

\* the fragments extractMetadataFromHTML is called on: without the attribute,
\* with a value that parses, with values that do not, and with two attributes
ParseFragments ==
    {<<Element(1, "p", NoAttrs, "Hello", << >>)>>,
     <<Element(1, "div", ("data-metadata" :> "{\"level\":1,\"gold\":10}"), "", << >>)>>,
     <<Element(1, "div", ("data-metadata" :> "{level:1"), "", << >>)>>,
     <<Element(1, "div", ("data-metadata" :> ""), "", << >>)>>,
     <<Element(1, "span", ("data-metadata" :> "{}"), "", << >>)>>,
     <<Element(1, "div", ("data-metadata" :> "{level:1"), "", << >>),
       Element(2, "span", ("data-metadata" :> "{\"level\":1,\"gold\":10}"), "", << >>)>>,
     <<Element(1, "div", ("data-metadata" :> "{\"level\":1,\"gold\":10}"), "", << >>),
       Element(2, "span", ("data-metadata" :> "{}"), "", << >>)>>,
     <<Element(1, "div", NoAttrs, "",
           <<Element(2, "span", ("data-metadata" :> "{}"), "", << >>)>>),
       Element(3, "p", ("data-metadata" :> "{\"level\":1,\"gold\":10}"), "Hello", << >>)>>}

ParseCalls == {[fn |-> "extractMetadataFromHTML", html |-> f] : f \in ParseFragments}

\* String(n) for n >= 0
RECURSIVE decimal(_)
decimal(n) ==
    IF n < 10 THEN Ch(Digits, n + 1) ELSE decimal(n \div 10) \o Ch(Digits, (n % 10) + 1)

\* ai-provider.js lines 337-345: what validate() throws inside its try block
\* for a response ("" when it throws nothing); response.ok is status 200..299
thrownInTry(response) ==
    IF response.rejected # "" THEN response.rejected
    ELSE IF response.status >= 200 /\ response.status <= 299 THEN ""
    ELSE IF response.status = 401
         THEN "Invalid API key. Please check your key and try again."
    ELSE IF response.status = 429
         THEN "Rate limit exceeded. Please try again in a moment."
    ELSE "API error: " \o decimal(response.status) \o ". Please try again."

\* ai-provider.js lines 327-353: OpenAIProvider.validate, given what fetch
\* settles with; error is the message of the Error it throws, "" when it
\* returns true
validate(response) ==
    LET message == thrownInTry(response) IN
    IF message = "" THEN [returned |-> TRUE, error |-> ""]
    ELSE IF includes(message, "API error") \/ includes(message, "Invalid API key")
         THEN [returned |-> FALSE, error |-> message]
    ELSE [returned |-> FALSE,
          error |-> "Network error. Please check your connection and try again."]

\* what fetch settles with: a response with a status, or a rejection with
\* the message of the TypeError
Responses ==
    {[rejected |-> "", status |-> n] : n \in {200, 204, 400, 401, 403, 404, 429, 500, 503}}
    \cup {[rejected |-> m, status |-> 0] : m \in {"Failed to fetch", "Load failed"}}

ValidateCalls == {[fn |-> "validate", response |-> r] : r \in Responses}

\* the largest CONFIG.MAX_AGENTIC_STEPS of the harness (AGENTIC_LOOP.md: "1-5
\* recommended")
MaxConfiguredSteps == 5

\* part_001 lines 1040-1190: the course of handleInteraction on an entry with
\* metadata parentMetadata, when CONFIG.MAX_AGENTIC_STEPS is maxSteps,
\* state.agenticLoop.enabled is enabled and every generateContent() resolves:
\* the number of content requests issued and how the call ends. With no step
\* run, stepResults[stepResults.length - 1] is undefined and reading its html
\* throws (line 1126): catch shows the failure panel.
handleInteraction(maxSteps, enabled, parentMetadata) ==
    LET wasComplexExperience ==
            /\ "agenticLoop" \in DOMAIN parentMetadata
            /\ parentMetadata["agenticLoop"].complexity = "high"
        shouldUseAgenticLoop == wasComplexExperience /\ enabled
        steps == Min(2, maxSteps - 1)
    IN  IF shouldUseAgenticLoop
        THEN IF steps < 1
             THEN [requests |-> 0, ends |-> "navigationFailed"]
             ELSE [requests |-> steps, ends |-> "committed"]
        ELSE [requests |-> 1, ends |-> "committed"]

\* the metadata of the entry that generateExperience commits for a plan
\* (part_001 lines 964-973)
PlannedMetadata ==
    {("theme" :> "Haunted lighthouse" @@ "experienceType" :> "short poem" @@
      "agenticLoop" :> [totalSteps |-> 1, complexity |-> "low"])}
    \cup {("theme" :> "Haunted lighthouse" @@ "experienceType" :> "turn-based battle system" @@
           "agenticLoop" :> [totalSteps |-> n, complexity |-> "high"]) : n \in 1..3}

FollowUpCalls ==
    {[fn |-> "handleInteraction", maxSteps |-> n, enabled |-> e, parentMetadata |-> pm] :
        n \in 1..MaxConfiguredSteps, e \in BOOLEAN, pm \in PlannedMetadata \cup {NoMetadata}}

CallInputs ==
    MetaCalls \cup PlanCalls \cup ContextCalls \cup ParseCalls \cup ValidateCalls
        \cup FollowUpCalls

InitCall ==
    /\ SessionInit
    /\ sanIn = << >>
    /\ sanOut = NoResult
    /\ sanAgain = NoResult
    /\ sanPc = "idle"
    /\ callArgs \in CallInputs
    /\ callResult = NoResult
    /\ callPc = "ready"

\* part_001 lines 197-221: one call of collectInteractionMetadata, with the
\* record it returns and the caller's parentMetadata object as the call leaves
\* it: line 198 copies the object and every write goes to the copy
Collect ==
    /\ callPc = "ready"
    /\ callArgs.fn = "collectInteractionMetadata"
    /\ callResult' =
          [returned |-> collectInteractionMetadata(callArgs.element, callArgs.parentMetadata),
           parentMetadata |-> callArgs.parentMetadata]
    /\ callArgs' = callArgs
    /\ callPc' = "done"
    /\ UNCHANGED <<sessionVars, sanVars>>

\* part_001 lines 682-731: one call of planExperience
Plan ==
    /\ callPc = "ready"
    /\ callArgs.fn = "planExperience"
    /\ callResult' = planExperience(callArgs.theme, callArgs.experienceType, callArgs.random)
    /\ callArgs' = callArgs
    /\ callPc' = "done"
    /\ UNCHANGED <<sessionVars, sanVars>>

\* part_001 lines 131-173: one call of extractContextFromHTML
ExtractContext ==
    /\ callPc = "ready"
    /\ callArgs.fn = "extractContextFromHTML"
    /\ callResult' = extractContextFromHTML(callArgs.html)
    /\ callArgs' = callArgs
    /\ callPc' = "done"
    /\ UNCHANGED <<sessionVars, sanVars>>

\* part_001 lines 176-194: one call of extractMetadataFromHTML
ExtractMetadata ==
    /\ callPc = "ready"
    /\ callArgs.fn = "extractMetadataFromHTML"
    /\ callResult' = extractMetadataFromHTML(callArgs.html)
    /\ callArgs' = callArgs
    /\ callPc' = "done"
    /\ UNCHANGED <<sessionVars, sanVars>>

\* ai-provider.js lines 327-353: one call of validate()
Validate ==
    /\ callPc = "ready"
    /\ callArgs.fn = "validate"
    /\ callResult' = validate(callArgs.response)
    /\ callArgs' = callArgs
    /\ callPc' = "done"
    /\ UNCHANGED <<sessionVars, sanVars>>

\* part_001 lines 1012-1213: one call of handleInteraction
FollowUp ==
    /\ callPc = "ready"
    /\ callArgs.fn = "handleInteraction"
    /\ callResult' = handleInteraction(callArgs.maxSteps, callArgs.enabled,
                                       callArgs.parentMetadata)
    /\ callArgs' = callArgs
    /\ callPc' = "done"
    /\ UNCHANGED <<sessionVars, sanVars>>

NextCall ==
    \/ Collect
    \/ Plan
    \/ ExtractContext
    \/ ExtractMetadata
    \/ Validate
    \/ FollowUp

SpecCall == InitCall /\ [][NextCall]_vars

\* ------------------------------------------------- properties of the session

\* C1: a successful commit leaves the old entries at indices 0..cursor
\* followed by the one new entry, with the cursor on the new last index; the
\* entries that were after the cursor are gone and never come back: no other
\* step adds an entry to the log, and navigation mounts only entries of the log.
C1_ForkAndTruncate ==
    [][/\ committed' # committed =>
            /\ history' = Append(SubSeq(history, 1, currentHistoryIndex + 1),
                                 history'[Len(history')])
            /\ history'[Len(history')].id = committed'
            /\ currentHistoryIndex' = Len(history') - 1
       /\ committed' = committed =>
            \A k \in 1..Len(history') : \E j \in 1..Len(history) : history'[k] = history[j]
       /\ (surface' # surface /\ surface'.kind = "entry") =>
            \E k \in 1..Len(history') : history'[k].id = surface'.id]_vars

\* the log after entries 1 and 2 were committed, the cursor moved back to
\* entry 1 and entry 3 was committed
C1_Forked == idsOf(history) = <<1, 3>> /\ currentHistoryIndex = 1

\* C2: the cursor is -1 exactly when the log is empty, and otherwise
\* 0 <= cursor < length of the log, in every reachable state.
C2_CursorValid ==
    /\ (currentHistoryIndex = -1) <=> (Len(history) = 0)
    /\ currentHistoryIndex >= -1
    /\ currentHistoryIndex < Len(history)

\* a sequence is in flight while the cursor has been moved off the last entry
C2_MovedBackInFlight == Len(history) = 2 /\ currentHistoryIndex = 0 /\ tasks # {}

\* C3 as stated: when a sequence fails, the log and the cursor are what they
\* were when the sequence started.
C3_SameAsAtStart ==
    [][\A t \in tasks :
          (tasks' = tasks \ {t} /\ committed' = committed) =>
              /\ idsOf(history') = t.log0
              /\ currentHistoryIndex' = t.cursor0]_vars

\* C3 amended: a step of a generation sequence that commits nothing (the
\* start of the sequence, a call that resolves before the last one, the failure
\* of any call) leaves the log and the cursor as they are.
C3_FailureCommitsNothing ==
    [][(tasks' # tasks /\ committed' = committed) =>
          UNCHANGED <<history, currentHistoryIndex>>]_vars

\* a follow-up failed after one of its steps had succeeded, the log populated
C3_FailedAfterStep ==
    /\ surface.kind = "navigationFailed"
    /\ Len(agenticLoop.stepHistory) > 0
    /\ Len(history) > 0

\* C4: at most one generation sequence is in flight.
C4_OneInFlight == Cardinality(tasks) <= 1

\* what sanitizeHTML makes of the backend's fragments
SanitizedBackend == {sanitizeHTML(html) : html \in BackendFragments}

\* every step record held by the log, by state.agenticLoop or by a sequence in flight
StepRecords ==
    UNION {{history[k].agenticSteps[i] : i \in 1..Len(history[k].agenticSteps)} :
              k \in 1..Len(history)}
        \cup {agenticLoop.stepHistory[i] : i \in 1..Len(agenticLoop.stepHistory)}
        \cup UNION {{t.steps[i] : i \in 1..Len(t.steps)} : t \in tasks}

\* C6: the fragment of every history entry and of every step record is an
\* output of sanitizeHTML and not the backend's raw markup, a step's context
\* summary is taken from its sanitized fragment, and the mounted fragment is
\* an output of sanitizeHTML.
C6_OnlySanitized ==
    /\ \A k \in 1..Len(history) :
          history[k].html \in SanitizedBackend /\ history[k].html \notin BackendFragments
    /\ \A r \in StepRecords :
          /\ r.html \in SanitizedBackend /\ r.html \notin BackendFragments
          /\ r.contextSummary = slice(extractContextFromHTML(r.html), 100)
    /\ surface.kind = "entry" =>
          /\ surface.html \in {sanitizeHTML(html) : html \in SanitizedBackend}
          /\ surface.html \notin BackendFragments

\* an entry with step records is in the log and a fragment is mounted
C6_StoredAndMounted ==
    /\ Len(history) > 0
    /\ Len(history[1].agenticSteps) > 0
    /\ surface.kind = "entry"

\* ------------------------------------------- properties of sanitizeHTML

\* the element of the output that an element of the input has become
InOutput(el) == \E o \in Elements(sanOut) : o.nid = el.nid
OutputOf(el) == CHOOSE o \in Elements(sanOut) : o.nid = el.nid
InputOf(o) == CHOOSE el \in Elements(sanIn) : el.nid = o.nid

\* the elements of the input that querySelectorAll enumerates
Enumerated == {querySelectorAll(sanIn)[i] : i \in 1..Len(querySelectorAll(sanIn))}

DirectiveAttrs == {"data-action-type", "data-alert-message"}

\* C5: the output holds no script element and no attribute whose name starts
\* with "on", on any element.
C5_NoExecutable ==
    sanPc = "done" =>
        \A o \in Elements(sanOut) :
            /\ o.tag # "script"
            /\ \A n \in DOMAIN o.attrs : ~startsWith(n, "on")

C8_DirectivesOnlyFromGrammar ==
    sanPc = "done" =>
        \A o \in Elements(sanOut) :
            /\ ("data-action-type" \in DOMAIN o.attrs) <=> ("data-alert-message" \in DOMAIN o.attrs)
            /\ DirectiveAttrs \cap DOMAIN o.attrs # {} =>
                  /\ o.tag = "button"
                  /\ "onclick" \in DOMAIN InputOf(o).attrs
                  /\ alertMessage(InputOf(o).attrs["onclick"]) # NULL

\* C9: for every element of the input that is not a script element, an href
\* with one of the three schemes becomes "#" and any other href is unchanged;
\* a src with one of the three schemes is removed and any other src is unchanged.
C9_URIsNeutralized ==
    sanPc = "done" =>
        \A el \in Elements(sanIn) :
            InOutput(el) =>
                /\ "href" \in DOMAIN el.attrs =>
                      /\ "href" \in DOMAIN OutputOf(el).attrs
                      /\ OutputOf(el).attrs["href"] =
                            IF hasScriptScheme(el.attrs["href"]) THEN "#" ELSE el.attrs["href"]
                /\ "src" \in DOMAIN el.attrs =>
                      IF hasScriptScheme(el.attrs["src"])
                      THEN "src" \notin DOMAIN OutputOf(el).attrs
                      ELSE /\ "src" \in DOMAIN OutputOf(el).attrs
                           /\ OutputOf(el).attrs["src"] = el.attrs["src"]

\* the attributes through which an element navigates or loads a resource
NavigableAttrs == {"href", "src", "action", "formaction", "data", "xlink:href"}

\* C10: no navigable or loadable attribute of the output holds a javascript:,
\* data: or vbscript: URI.
C10_NoScriptURIs ==
    sanPc = "done" =>
        \A o \in Elements(sanOut) :
            \A n \in NavigableAttrs \cap DOMAIN o.attrs : ~hasScriptScheme(o.attrs[n])

\* the keys that the data attributes of an element give, and their values
DataNames(el) ==
    {n \in DOMAIN el.attrs : startsWith(n, "data-") /\ n \notin DirectiveAttrs}

DataKey(n) == SubSeq(n, Len("data-") + 1, Len(n))

DataValue(el, n) == IF JSONparse(el.attrs[n]).ok THEN JSONparse(el.attrs[n]).value ELSE el.attrs[n]

Collected == callPc = "done" /\ callArgs.fn = "collectInteractionMetadata"

\* C11 (as stated): in the record collectInteractionMetadata returns, every key
\* of a data-* attribute of the element (the two directive attributes aside)
\* has the element's value, every other key of the parent has the parent's
\* value, and parent {level:1, gold:10} with attributes {gold:25} gives
\* {level:1, gold:25, interactionCount:1}; the parent is not modified.
C11_OtherParentKeysKept ==
    Collected =>
        LET el == callArgs.element
            parent == callArgs.parentMetadata
            keys == {DataKey(n) : n \in DataNames(el)}
        IN  /\ \A n \in DataNames(el) : callResult.returned[DataKey(n)] = DataValue(el, n)
            /\ \A k \in (DOMAIN parent) \ keys :
                  k \in DOMAIN callResult.returned /\ callResult.returned[k] = parent[k]
            /\ (parent = ("level" :> 1 @@ "gold" :> 10) /\ DataNames(el) = {"data-gold"}
                    /\ el.attrs["data-gold"] = "25")
                  => callResult.returned = ("level" :> 1 @@ "gold" :> 25 @@ "interactionCount" :> 1)

\* the record returned, with the two keys the function maintains itself
C11_Merged ==
    Collected =>
        LET el == callArgs.element
            parent == callArgs.parentMetadata
            keys == {DataKey(n) : n \in DataNames(el)}
            own == {"lastInteractionType", "interactionCount"}
        IN  /\ \A n \in DataNames(el) : callResult.returned[DataKey(n)] = DataValue(el, n)
            /\ \A k \in (DOMAIN parent) \ (keys \cup own) :
                  k \in DOMAIN callResult.returned /\ callResult.returned[k] = parent[k]
            /\ DOMAIN callResult.returned = (DOMAIN parent) \cup keys \cup own
            /\ callResult.returned["lastInteractionType"] = el.tag
            /\ callResult.returned["interactionCount"] =
                  (IF "interactionCount" \in DOMAIN parent THEN parent["interactionCount"] ELSE 0) + 1
            /\ (parent = ("level" :> 1 @@ "gold" :> 10) /\ DataNames(el) = {"data-gold"}
                    /\ el.attrs["data-gold"] = "25" /\ el.tag = "a")
                  => callResult.returned = ("level" :> 1 @@ "gold" :> 25 @@ "lastInteractionType" :> "a"
                                     @@ "interactionCount" :> 1)

\* C11 (amended): every key of a data-* attribute of the element (the two
\* directive attributes aside) has the element's value, overriding the parent's;
\* every other key of the parent keeps the parent's value, except the two keys
\* the function maintains itself: lastInteractionType is the element's tag name
\* and interactionCount is the parent's count (0 when it has none) plus one.
\* Parent {level:1, gold:10} with attributes {gold:25} on a link gives
\* {level:1, gold:25, lastInteractionType:"a", interactionCount:1}. The parent
\* record passed in is not modified.
C11_MetadataPrecedence ==
    /\ C11_Merged
    /\ Collected => callResult.parentMetadata = callArgs.parentMetadata

\* the example of C11 has been computed, with gold overridden
C11_GoldOverridden ==
    /\ Collected
    /\ callArgs.parentMetadata = ("level" :> 1 @@ "gold" :> 10)
    /\ callArgs.element.attrs = ("href" :> "#" @@ "data-gold" :> "25")
    /\ callResult.returned["gold"] = 25 /\ callResult.returned["level"] = 1

Planned == callPc = "done" /\ callArgs.fn = "planExperience"

\* some keyword occurs in the kind, lower-cased: a keyword holds no white
\* space, so it occurs in the kind exactly when it occurs in one of its tokens
HasKeyword(kind) == \E keyword \in complexKeywords : includes(toLowerCase(kind), keyword)

\* C13: planExperience classifies by the kind alone: when a token of the kind
\* (compared in lower case) contains a keyword of the fixed set, complexity is
\* high and 2 <= totalSteps <= MAX_AGENTIC_STEPS; when none does, complexity is
\* low and totalSteps = 1; for every theme.
C13_ClassifiedByKind ==
    Planned =>
        IF HasKeyword(callArgs.experienceType)
        THEN /\ callResult.complexity = "high"
             /\ callResult.totalSteps >= 2 /\ callResult.totalSteps <= MAX_AGENTIC_STEPS
             /\ callResult.needsMultipleSteps
        ELSE /\ callResult.complexity = "low"
             /\ callResult.totalSteps = 1
             /\ ~callResult.needsMultipleSteps

\* a kind whose token only contains a keyword ('os' in 'cosmic') was planned
\* as complex, in three steps
C13_TokenContainsKeyword ==
    /\ Planned
    /\ callArgs.experienceType = "cosmic horror tale"
    /\ callResult.complexity = "high" /\ callResult.totalSteps = 3

\* C14: planExperience(theme, "static gallery") returns totalSteps = 1 for
\* every theme.
C14_StaticGalleryOneStep ==
    (Planned /\ callArgs.experienceType = "static gallery") => callResult.totalSteps = 1

Extracted == callPc = "done" /\ callArgs.fn = "extractContextFromHTML"

\* C15: for every fragment, extractContextFromHTML returns a string that is
\* not empty and at most 100 characters long.
C15_LabelBounded ==
    Extracted => Len(callResult) >= 1 /\ Len(callResult) <= 100

\* a heading longer than 100 characters was cut to 100
C15_LongHeadingCut ==
    /\ Extracted
    /\ Len(callArgs.html) >= 1 /\ callArgs.html[1].tag = "h2" /\ Len(callArgs.html[1].text) > 100
    /\ Len(callResult) = 100

\* the fragments of C16: no heading, no title, one paragraph of 5 characters
ShortParagraph ==
    /\ Extracted
    /\ Len(callArgs.html) = 1
    /\ callArgs.html[1].tag = "p" /\ callArgs.html[1].attrs = NoAttrs
    /\ Len(callArgs.html[1].text) = 5

\* C16 (as stated): for a fragment with no heading, no title or data-title
\* attribute and a single paragraph whose text is 5 characters long,
\* extractContextFromHTML returns "Initial Experience".
C16_ShortParagraphFallsBack ==
    ShortParagraph => callResult = "Initial Experience"

\* C16 (amended): for such a fragment extractContextFromHTML returns the first
\* line of the paragraph's text, trimmed, and returns "Initial Experience"
\* only when the 5 characters are all white space.
C16_ShortParagraphFirstLine ==
    ShortParagraph =>
        LET text == callArgs.html[1].text IN
        IF \A i \in 1..Len(text) : Ch(text, i) \in SpaceChars
        THEN callResult = "Initial Experience"
        ELSE /\ callResult # "Initial Experience"
             /\ includes(text, callResult)
             /\ ~includes(callResult, "\n")
             /\ Ch(callResult, 1) \notin SpaceChars
             /\ Ch(callResult, Len(callResult)) \notin SpaceChars
             /\ text = "Hello" => callResult = "Hello"

\* the paragraph "Hello" gave the label "Hello"
C16_HelloKept ==
    ShortParagraph /\ callArgs.html[1].text = "Hello" /\ callResult = "Hello"

\* C12: the entry that handleInteraction commits for an element of entry E has
\* an interactionCount of E's interactionCount plus one (1 when E has none),
\* whatever the generated fragment contains.
C12_CountIncreasesByOne ==
    [][\A t \in tasks :
          (t.fn = "handleInteraction" /\ tasks' = tasks \ {t} /\ committed' = committed + 1)
              => /\ "interactionCount" \in DOMAIN history'[Len(history')].metadata
                 /\ history'[Len(history')].metadata["interactionCount"] = t.parentCount + 1]_vars

\* C17: every entry of the log has a context label of at most 100 characters.
C17_LabelsBounded ==
    \A k \in 1..Len(history) : Len(history[k].contextId) <= MAX_CONTEXT_LENGTH

\* a back/forward signal is delivered whose state carries no historyIndex or
\* an index outside the log
IgnoredPopState ==
    /\ committed' = committed
    /\ navStack' = navStack /\ navPos' # navPos
    /\ navStack[navPos'] = NoState \/ outOfRange(navStack[navPos'][1])

\* an item of the history list is clicked whose index is outside the log
IgnoredItemClick ==
    /\ committed' = committed
    /\ navPos' = navPos + 1 /\ Len(navStack') = navPos'
    /\ navStack' # navStack
    /\ navStack'[navPos'] # NoState
    /\ outOfRange(navStack'[navPos'][1])

\* C18: navigateToHistoryIndex with an index below 0 or not below the length
\* of the log, and a back/forward signal whose state carries no historyIndex,
\* leave the log, the cursor and the rendered fragment as they were, and
\* surface no error.
C18_InvalidNavigationIgnored ==
    [][(IgnoredPopState \/ IgnoredItemClick) => UNCHANGED <<history, currentHistoryIndex, surface>>]_vars

\* the platform is on an entry without state that back/forward has reached,
\* with an entry mounted
C18_BackToStateless ==
    /\ navPos < Len(navStack)
    /\ navStack[navPos] = NoState
    /\ surface.kind = "entry" /\ currentHistoryIndex >= 0

\* a back/forward signal or a click on an item of the history list asks for
\* an index inside the log
AcceptedNavigation(index) ==
    /\ ~outOfRange(index)
    /\ committed' = committed
    /\ \/ /\ navStack' = navStack /\ navPos' # navPos
          /\ navStack[navPos'] # NoState /\ navStack[navPos'][1] = index
       \/ /\ navPos' = navPos + 1 /\ Len(navStack') = navPos'
          /\ navStack' # navStack
          /\ navStack'[navPos'] # NoState /\ navStack'[navPos'][1] = index

\* C19: navigateToHistoryIndex(i) with 0 <= i < length sets the cursor to i,
\* renders the stored entry at i, leaves the log unchanged and issues no
\* request to the generation backend.
C19_NavigationRendersStored ==
    [][\A index \in 0..(Len(history) - 1) :
          AcceptedNavigation(index) =>
              /\ currentHistoryIndex' = index
              /\ surface'.kind = "entry" /\ surface'.id = history[index + 1].id
              /\ surface'.html = sanitizeHTML(history[index + 1].html)
              /\ surface'.contextId = history[index + 1].contextId
              /\ history' = history
              /\ UNCHANGED <<tasks, started, generated>>]_vars

\* the first of two entries is mounted again and the cursor is on it
C19_FirstEntryMountedAgain ==
    /\ Len(history) = 2 /\ currentHistoryIndex = 0
    /\ surface.kind = "entry" /\ surface.id = history[1].id
    /\ navPos < Len(navStack)

\* the steps of a sequence so far: requested in order, all but the last
\* answered, each answer sanitized and summarized
InOrder(t) ==
    /\ t.i >= 1 /\ t.i <= t.totalSteps
    /\ t.requested = [k \in 1..t.i |-> k]
    /\ (t.fn = "generateExperience" \/ t.complexity = "high") =>
          /\ Len(t.steps) = t.i - 1
          /\ \A k \in 1..Len(t.steps) :
                /\ t.steps[k].stepNumber = k
                /\ t.steps[k].html \in SanitizedBackend
                /\ t.steps[k].contextSummary = slice(extractContextFromHTML(t.steps[k].html), 100)

\* C20: within a sequence of n steps exactly n content requests are issued, in
\* the order 1..n, the request for step k+1 only after the response of step k
\* has arrived and been sanitized and summarized, so that one step of a
\* sequence is outstanding at a time.
C20_StepsSequential ==
    [][/\ \A t \in tasks' : t.pc = "step" => InOrder(t)
       /\ \A t \in tasks :
             (tasks' = tasks \ {t} /\ committed' = committed + 1)
                 => t.requested = [k \in 1..t.totalSteps |-> k]]_vars

\* a sequence of three steps is waiting for its third response
C20_ThirdStepRequested ==
    \E t \in tasks : t.totalSteps = 3 /\ t.requested = <<1, 2, 3>> /\ Len(t.steps) = 2

\* the metadata of the mounted entry records complexity high
MountedIsComplex ==
    /\ surface.kind = "entry"
    /\ "agenticLoop" \in DOMAIN surface.metadata
    /\ surface.metadata["agenticLoop"].complexity = "high"

\* C21: a follow-up interaction runs the multi-step pipeline exactly when the
\* metadata of the entry being responded to records complexity high and the
\* loop is enabled, whatever the keywords of its kind say, with at most
\* MAX_AGENTIC_STEPS - 1 steps; otherwise it runs a single step.
C21_FollowUpStepsFromMetadata ==
    [][\A t \in tasks' :
          (started' = started + 1 /\ t.seq = started' /\ t.fn = "handleInteraction")
              => IF MountedIsComplex /\ ENABLE_AGENTIC_LOOP
                 THEN /\ t.complexity = "high"
                      /\ t.totalSteps >= 1 /\ t.totalSteps <= MAX_AGENTIC_STEPS - 1
                 ELSE t.complexity = "low" /\ t.totalSteps = 1]_vars

\* a follow-up runs two steps on an entry whose kind has no complexity keyword
C21_PoemFollowUpMultiStep ==
    \E t \in tasks :
        /\ t.fn = "handleInteraction" /\ t.complexity = "high" /\ t.totalSteps = 2
        /\ "experienceType" \in DOMAIN t.metadata
        /\ ~isComplex(t.metadata["experienceType"])

\* C22: whenever a generation sequence is in flight, from its start until its
\* completion or failure, the regenerate control is disabled, under every
\* interleaving of user events and backend responses.
C22_RegenerateDisabledInFlight ==
    tasks # {} => regenerateDisabled

\* a sequence starts only on the experience screen, and that screen is entered
\* only by the step in which the validation of a key starting with "sk-"
\* succeeds and the key is stored
ValidationGates ==
    [][/\ started' # started => currentScreen' = "experience"
       /\ (currentScreen # "experience" /\ currentScreen' = "experience")
             => /\ validating # NULL /\ validating' = NULL
                /\ startsWith(validating, "sk-")
                /\ apiKey' = validating]_vars

\* on the credential screen no credential is stored
CredentialUnsetOnCredentialScreen ==
    currentScreen = "apikey" => apiKey = NULL

\* C23: no generation request is issued and the experience screen is not
\* entered until a credential validation has succeeded: while the session is
\* on the credential screen, whatever keys were typed, refused or rejected,
\* the stored credential is unset and the log is empty.
C23_CredentialScreenClean ==
    currentScreen = "apikey" => apiKey = NULL /\ history = << >>

\* C24: addToHistory replaces the current platform navigation entry exactly
\* when the log was empty at the commit, and pushes a new platform entry on
\* every other commit; in both cases the platform entry written holds
\* {historyIndex: new cursor}.
C24_ReplaceFirstPushRest ==
    [][committed' = committed + 1 =>
          /\ navStack'[navPos'] # NoState
          /\ navStack'[navPos'][1] = currentHistoryIndex'
          /\ IF Len(history) = 0
             THEN /\ navPos' = navPos /\ Len(navStack') = Len(navStack)
                  /\ \A k \in 1..Len(navStack) : k # navPos => navStack'[k] = navStack[k]
             ELSE /\ navPos' = navPos + 1 /\ Len(navStack') = navPos'
                  /\ \A k \in 1..navPos : navStack'[k] = navStack[k]]_vars

\* the second commit on a log of one entry has pushed a second platform entry
C24_SecondCommitPushed ==
    /\ committed = 2 /\ Len(history) = 2
    /\ Len(navStack) = 2 /\ navPos = 2
    /\ navStack[1] # NoState /\ navStack[1][1] = 0
    /\ navStack[2] # NoState /\ navStack[2][1] = 1

\* C25: after any sequence of commits, history-panel navigations and platform
\* back/forward signals, the historyIndex stored in the current entry of the
\* platform navigation stack equals the session cursor, and replaying it with
\* navigate shows the entry that was displayed when that platform entry was
\* written.
C25_PlatformEntryReplays ==
    navStack[navPos] # NoState =>
        /\ navStack[navPos][1] = currentHistoryIndex
        /\ ~outOfRange(navStack[navPos][1])
        /\ history[navStack[navPos][1] + 1].id = navStack[navPos][2]

\* the step is the successful completion of a generation sequence, which
\* commits one entry with a fresh id at the end of the log
CompletesSequence ==
    /\ committed' = committed + 1
    /\ \E t \in tasks : tasks' = tasks \ {t} /\ t.pc = "step" /\ t.i = t.totalSteps
    /\ Len(history') >= 1
    /\ history'[Len(history')].id = committed'
    /\ \A k \in 1..Len(history) : history[k].id # committed'

\* the step is a confirmed reset
ClearsSession ==
    history' = << >> /\ currentHistoryIndex' = -1 /\ apiKey' = NULL /\ currentScreen' = "warning"

\* C26: a history entry is created only by a successfully completed
\* generation sequence and is immutable afterwards: an index that stays in
\* the log keeps its entry (id, fragment, label, metadata, step list) in
\* every step, except that a commit drops the entries after the cursor and a
\* reset drops them all.
C26_EntriesImmutable ==
    [][/\ \A k \in 1..Len(history) :
             \/ k <= Len(history') /\ history'[k] = history[k]
             \/ CompletesSequence /\ k > currentHistoryIndex + 1
             \/ ClearsSession
       /\ \A k \in 1..Len(history') :
             (k > Len(history) \/ history'[k] # history[k])
                 => CompletesSequence /\ k = Len(history')]_vars

\* the first entry has stayed in the log through a navigation back to it and
\* a commit that dropped the second entry
C26_FirstKeptSecondDropped ==
    /\ Len(history) = 2 /\ committed = 3
    /\ history[1].id = 1 /\ history[2].id = 3
    /\ history[1].html \in SanitizedBackend
    /\ "experienceType" \in DOMAIN history[1].metadata

HeadingTags == {"h1", "h2", "h3", "h4", "h5", "h6"}

\* the label the priority chain of C27 names: the headings with text, lowest
\* level first and in document order within a level; then the first element
\* with a title or data-title attribute; then the paragraphs of more than 10
\* characters; then the first line of the text
LabelByPriority(html) ==
    LET all == querySelectorAll(html)
        text(el) == trim(textContent(<<el>>))
        headings == SelectSeq(all, LAMBDA el : el.tag \in HeadingTags /\ text(el) # "")
        level(el) == CHOOSE d \in 1..6 : el.tag = "h" \o Ch(Digits, d + 1)
        top == SelectSeq(headings, LAMBDA el : \A k \in 1..Len(headings) :
                                        level(el) <= level(headings[k]))
        titled == SelectSeq(all, LAMBDA el : hasAttribute(el, "data-title") \/ hasAttribute(el, "title"))
        title == IF Len(titled) = 0 THEN ""
                 ELSE IF hasAttribute(titled[1], "data-title") /\ trim(titled[1].attrs["data-title"]) # ""
                      THEN trim(titled[1].attrs["data-title"])
                 ELSE IF hasAttribute(titled[1], "title") THEN trim(titled[1].attrs["title"])
                 ELSE ""
        paragraphs == SelectSeq(all, LAMBDA el : el.tag = "p" /\ Len(text(el)) > 10)
        line == trim(firstLineOf(trim(textContent(html))))
    IN  IF Len(headings) > 0 THEN text(top[1])
        ELSE IF title # "" THEN title
        ELSE IF Len(paragraphs) > 0 THEN text(paragraphs[1])
        ELSE IF line # "" THEN line
        ELSE "Initial Experience"

\* C27: extractContextFromHTML picks the label by this priority, first hit
\* wins: the first non-empty heading text at any level; else the first title
\* or data-title attribute found anywhere in the fragment; else the first
\* paragraph whose trimmed text is longer than 10 characters; else the first
\* non-empty line of all visible text; else "Initial Experience" (the label
\* being cut to 100 characters).
C27_LabelByPriority ==
    Extracted => callResult = slice(LabelByPriority(callArgs.html), MAX_CONTEXT_LENGTH)

\* C27 holds of every fragment whose first heading of each level has text
C27_ExceptBlankFirstHeading ==
    (/\ Extracted
     /\ \A k \in 1..Len(callArgs.html) :
           (callArgs.html[k].tag \in HeadingTags /\ trim(callArgs.html[k].text) = "")
               => \A j \in (k + 1)..Len(callArgs.html) : callArgs.html[j].tag # callArgs.html[k].tag)
        => callResult = slice(LabelByPriority(callArgs.html), MAX_CONTEXT_LENGTH)

\* the buttons of the input whose onclick sanitizeHTML examines and which
\* carry no directive attribute of their own
ExaminedButtons ==
    {el \in Enumerated : /\ el.tag = "button"
                         /\ "onclick" \in DOMAIN el.attrs
                         /\ DirectiveAttrs \cap DOMAIN el.attrs = {}}

HasDirective(el) == InOutput(el) /\ DirectiveAttrs \cap DOMAIN OutputOf(el).attrs # {}

\* the names of C28, as identifiers, and its two markers of script loading
ReflectionNames == {"eval", "Function", "constructor", "prototype", "__proto__", "this"}
GlobalNames == {"window", "document", "globalThis", "location"}
StorageNames == {"cookie", "localStorage", "sessionStorage"}
LoadingNames == {"import", "require"}

RefersToDisqualified(v) ==
    \/ \E name \in ReflectionNames \cup GlobalNames \cup StorageNames \cup LoadingNames :
          Occurs(v, name, TRUE, TRUE)
    \/ includes(v, "javascript:")
    \/ includes(v, "<script")

\* C28: a button onclick whose text, after decoding \uXXXX and \xXX escapes,
\* contains anywhere a reference to reflection (eval, Function, constructor,
\* prototype, __proto__, this), to a global object (window, document,
\* globalThis, location), to the page's storage (cookie, storage objects) or
\* to script loading (import, require, javascript:, <script) never yields the
\* directive attributes.
C28_DisqualifiedNeverConverted ==
    sanPc = "done" =>
        \A el \in ExaminedButtons :
            RefersToDisqualified(normalizedValue(el.attrs["onclick"])) => ~HasDirective(el)

\* C28 for the references that the keyword pattern spells out: eval, Function,
\* prototype, __proto__, this, cookie, javascript:, <script, and window,
\* document, globalThis and location followed by a dot
C28_ListedPatternsNeverConverted ==
    sanPc = "done" =>
        \A el \in ExaminedButtons :
            LET v == normalizedValue(el.attrs["onclick"]) IN
            (\/ \E name \in {"eval", "Function", "prototype", "__proto__", "this", "cookie"} :
                   Occurs(v, name, TRUE, TRUE)
             \/ \E name \in GlobalNames : includes(v, name \o ".")
             \/ includes(v, "javascript:")
             \/ includes(v, "<script"))
                => ~HasDirective(el)

\* the handler is one call alert(<argument>): "alert", "(", a non-empty
\* argument and the ")" that closes the call, with nothing but white space
\* around and no statement separator
SingleAlertCall(v) ==
    LET t == trim(v)
        open == SkipSpaces(t, 6)
        close == MatchingParen(t, open, 0)
    IN  /\ startsWith(t, "alert")
        /\ open <= Len(t) /\ Ch(t, open) = "("
        /\ close = Len(t)
        /\ trim(SubSeq(t, open + 1, close - 1)) # ""
        /\ ~includes(t, ";")

\* C29: sanitizeHTML emits the two directive attributes for a button onclick
\* if and only if the decoded handler text is exactly one call
\* alert(<one argument>), with nothing but white space before the call or
\* after the parenthesis that closes it and no statement separator (and the
\* handler passes the keyword and Math tests); a handler that chains or
\* combines a second expression with the call yields no directive.
C29_DirectiveIffSingleCall ==
    sanPc = "done" =>
        \A el \in ExaminedButtons :
            LET v == normalizedValue(el.attrs["onclick"]) IN
            HasDirective(el) <=>
                (SingleAlertCall(v) /\ ~hasDangerousKeywords(v) /\ usesSafeMathOnly(v))

\* C29 without its last clause: the directive is emitted exactly for the
\* handlers that begin with a call of alert and end with a closing parenthesis
C29_DirectiveIffAlertPrefix ==
    sanPc = "done" =>
        \A el \in ExaminedButtons :
            LET v == normalizedValue(el.attrs["onclick"]) IN
            HasDirective(el) <=>
                (isValidAlertCall(v) /\ ~hasDangerousKeywords(v) /\ usesSafeMathOnly(v))

\* the member of Math accessed at position i of v ("" when Math at i is not
\* followed by a member access): Math.name, Math .name, Math['name'], Math["name"]
MathMemberAt(v, i) ==
    LET j == SkipSpaces(v, i + 4)
        k == IF j <= Len(v) /\ Ch(v, j) = "." THEN SkipSpaces(v, j + 1)
             ELSE IF j <= Len(v) /\ Ch(v, j) = "["
                  THEN LET q == SkipSpaces(v, j + 1) IN
                       IF q <= Len(v) /\ Ch(v, q) \in {"'", "\""} THEN q + 1 ELSE q
             ELSE Len(v) + 1
    IN  IF k <= Len(v) THEN SubSeq(v, k, WordEnd(v, k)) ELSE ""

\* the members of Math that the handler accesses
MathMembers(v) ==
    {MathMemberAt(v, i) : i \in {i \in 1..Len(v) :
        MatchAt(v, i, "Math") /\ WordBoundary(v, i) /\ WordBoundary(v, i + 4)}} \ {""}

\* C30: when a button onclick refers to Math, the directive attributes are
\* emitted only if every member of Math that the handler accesses is one of
\* floor, ceil, round, random, abs, min, max, pow, sqrt, sign; any access to
\* another member of Math, by any access syntax, yields no directive.
C30_OnlySafeMathConverted ==
    sanPc = "done" =>
        \A el \in ExaminedButtons :
            HasDirective(el) =>
                MathMembers(normalizedValue(el.attrs["onclick"])) \subseteq SafeMathMethods

\* C30 for the members accessed with a dot directly after Math
C30_DottedMembersSafe ==
    sanPc = "done" =>
        \A el \in ExaminedButtons :
            LET v == normalizedValue(el.attrs["onclick"]) IN
            HasDirective(el) =>
                \A i \in 1..Len(v) :
                    (MatchAt(v, i, "Math.") /\ IsWordAt(v, i + 5))
                        => SubSeq(v, i + 5, WordEnd(v, i + 5)) \in SafeMathMethods

FormHijackAttrs == {"formaction", "form", "formmethod", "formtarget"}

\* the attributes of an element that C31 lets sanitizeHTML change
MayChange(n) ==
    startsWith(n, "on") \/ n \in {"href", "src"} \/ n \in DirectiveAttrs \/ n \in FormHijackAttrs

\* an element of the output has no form-hijacking attribute, and its other
\* attributes, apart from those that may change, are those of the input
FormAttrsRemoved(o) ==
    /\ FormHijackAttrs \cap DOMAIN o.attrs = {}
    /\ \A n \in DOMAIN InputOf(o).attrs : ~MayChange(n) =>
          n \in DOMAIN o.attrs /\ o.attrs[n] = InputOf(o).attrs[n]
    /\ \A n \in DOMAIN o.attrs : ~MayChange(n) => n \in DOMAIN InputOf(o).attrs

\* C31: the output of sanitizeHTML has no form-hijacking attribute on any
\* element: formaction, form, formmethod and formtarget are removed wherever
\* they occur, and no other attribute (apart from event handlers, rewritten
\* href/src and the added directive attributes) is changed.
C31_NoFormHijack ==
    sanPc = "done" => \A o \in Elements(sanOut) : FormAttrsRemoved(o)

\* C31 for the elements that querySelectorAll enumerates
C31_EnumeratedFormAttrsRemoved ==
    sanPc = "done" => \A el \in Enumerated : InOutput(el) => FormAttrsRemoved(OutputOf(el))

Parsed == callPc = "done" /\ callArgs.fn = "extractMetadataFromHTML"

\* the values of the data-metadata attributes of a fragment, in document order
MetadataValues(html) ==
    LET found == SelectSeq(querySelectorAll(html), LAMBDA el : "data-metadata" \in DOMAIN el.attrs)
    IN  [k \in 1..Len(found) |-> found[k].attrs["data-metadata"]]

AnswersLastRequest ==
    /\ generated' = generated + 1
    /\ \E t \in tasks : tasks' = tasks \ {t}

\* the second clause of C32: a generated fragment with malformed data-metadata
\* is committed to the log and rendered like any other, and contributes no key
\* to the metadata of its entry
MalformedStillCommitted ==
    [][AnswersLastRequest =>
          /\ committed' = committed + 1
          /\ Len(history') >= 1
          /\ history'[Len(history')].html = sanitizeHTML(backend.html)
          /\ surface'.kind = "entry" /\ surface'.id = committed'
          /\ surface'.html = sanitizeHTML(history'[Len(history')].html)
          /\ (backend.html = RawBroken /\ Len(history) = 0) =>
                DOMAIN history'[1].metadata = {"theme", "experienceType", "agenticLoop"}]_vars

\* an entry generated from the fragment with malformed data-metadata is mounted
MalformedMounted ==
    /\ backend.html = RawBroken
    /\ surface.kind = "entry" /\ Len(history) >= 1
    /\ "data-metadata" \in DOMAIN surface.html[1].attrs
    /\ ~JSONparse(surface.html[1].attrs["data-metadata"]).ok

Validated == callPc = "done" /\ callArgs.fn = "validate"

\* the kind of failure a message of validate() reports
FailureKind(error) ==
    IF startsWith(error, "Invalid API key") THEN "InvalidCredential"
    ELSE IF startsWith(error, "Rate limit exceeded") THEN "RateLimited"
    ELSE IF startsWith(error, "API error") THEN "ApiError"
    ELSE IF startsWith(error, "Network error") THEN "NetworkError"
    ELSE "none"

\* C33: credential validation reports each failure as its own kind: a 401
\* response fails as an invalid credential, a 429 response fails as
\* rate-limited, any other non-success status fails as an API error, and only
\* a failed transport fails as a network error.
C33_FailureKinds ==
    Validated =>
        LET r == callArgs.response
            kind == FailureKind(callResult.error)
        IN  IF r.rejected # "" THEN ~callResult.returned /\ kind = "NetworkError"
            ELSE IF r.status >= 200 /\ r.status <= 299 THEN callResult.returned /\ kind = "none"
            ELSE /\ ~callResult.returned
                 /\ r.status = 401 => kind = "InvalidCredential"
                 /\ r.status = 429 => kind = "RateLimited"
                 /\ r.status \notin {401, 429} => kind = "ApiError"

\* C33 for every outcome other than a 429 response
C33_ExceptRateLimit ==
    (Validated /\ callArgs.response.status # 429) =>
        LET r == callArgs.response
            kind == FailureKind(callResult.error)
        IN  IF r.rejected # "" THEN ~callResult.returned /\ kind = "NetworkError"
            ELSE IF r.status >= 200 /\ r.status <= 299 THEN callResult.returned /\ kind = "none"
            ELSE /\ ~callResult.returned
                 /\ r.status = 401 => kind = "InvalidCredential"
                 /\ r.status # 401 =>
                       /\ kind = "ApiError"
                       /\ includes(callResult.error, decimal(r.status))


\* ------------------------------------------------------------------- C34

\* the step ends sequence seq
Terminates(seq) == InFlight(seq) /\ ~InFlight(seq)'

\* the failure panels of the two generation functions
FailurePanel == surface.kind \in {"generationFailed", "navigationFailed"}

\* how a sequence ends: one entry more is committed and mounted, or a failure
\* panel is mounted and nothing is committed; either way the regenerate
\* control is enabled and the current-step counter is 0
EndsCommittedOrFailed ==
    [][\A seq \in 1..MaxSequences :
          Terminates(seq) =>
              /\ \/ /\ committed' = committed + 1
                    /\ Len(history') = currentHistoryIndex' + 1
                    /\ history'[Len(history')].id = committed'
                    /\ surface'.kind = "entry" /\ surface'.id = committed'
                 \/ /\ committed' = committed
                    /\ history' = history
                    /\ FailurePanel'
              /\ ~regenerateDisabled'
              /\ agenticLoop'.currentStep = 0
              /\ tasks' = {t \in tasks : t.seq # seq}]_vars

\* a sequence has ended and left the control enabled and the counter at 0
Ended(seq) ==
    /\ seq <= started
    /\ ~InFlight(seq)
    /\ ~regenerateDisabled
    /\ agenticLoop.currentStep = 0

producedBy(t) ==
    IF t.fn = "generateExperience" \/ t.complexity = "high"
    THEN Append(t.steps, stepRecord(t, backend.html))
    ELSE << >>

\* the step list of the entry that sequence t commits is the list of t's own
\* records, numbered 1..n, and the entry's fragment is that of the last one
OwnStepsAttached(t) ==
    LET entry == history'[Len(history')]
        own == producedBy(t)
    IN  /\ entry.agenticSteps = own
        /\ \A k \in 1..Len(entry.agenticSteps) :
              /\ entry.agenticSteps[k].seq = t.seq
              /\ entry.agenticSteps[k].stepNumber = k
        /\ Len(own) > 0 => (Len(own) = t.totalSteps /\ entry.html = own[Len(own)].html)

\* C35: the step list attached to a committed entry holds exactly the step
\* records produced by the generation sequence that committed the entry, in
\* step order 1..n, and the entry's fragment is the fragment of the last of
\* them; it never holds a record of another sequence, under any interleaving.
C35_StepsOfCommitter ==
    [][\A t \in tasks :
          (tasks' = tasks \ {t} /\ committed' = committed + 1) => OwnStepsAttached(t)]_vars

\* C35 for the commit of a sequence that is the only one started so far
C35_StepsOfFirstSequence ==
    [][\A t \in tasks :
          (tasks' = tasks \ {t} /\ committed' = committed + 1 /\ started = 1)
              => OwnStepsAttached(t)]_vars


\* ------------------------------------------------------------------- C36

\* a call of handleInteraction of the harness has run to its end
FollowedUp == callPc = "done" /\ callArgs.fn = "handleInteraction"

\* C36: for every configured MAX_AGENTIC_STEPS >= 1 a follow-up interaction
\* issues at least one content request and, when the backend succeeds,
\* commits an entry; no configuration makes a follow-up on a complex entry
\* run zero steps and fail without calling the backend.
C36_FollowUpRequestsContent ==
    FollowedUp => (callResult.requests >= 1 /\ callResult.ends = "committed")

\* C36 for every configuration of two steps or more
C36_FromTwoSteps ==
    (FollowedUp /\ callArgs.maxSteps >= 2) =>
        /\ callResult.ends = "committed"
        /\ callResult.requests \in 1..2
        /\ callResult.requests = 1 \/ callArgs.maxSteps >= 3


\* ------------------------------------------------------------------- C37

\* the step in which follow-up t commits its entry
CommitsFollowUp(t) ==
    /\ t.fn = "handleInteraction"
    /\ tasks' = tasks \ {t}
    /\ committed' = committed + 1

\* the entry before the newly committed one is the entry whose element
\* started follow-up t
PlacedAfterOrigin(t) ==
    /\ Len(history') >= 2
    /\ history'[Len(history') - 1].id = t.from

\* C37: the entry committed by a follow-up interaction is placed immediately
\* after the entry whose element was activated: at commit time the entry at
\* the index before the new one is the entry the interaction's context chain
\* and carried metadata came from, under any interleaving of navigation
\* events with the pending backend call.
C37_CommittedAfterOrigin ==
    [][\A t \in tasks : CommitsFollowUp(t) => PlacedAfterOrigin(t)]_vars

\* C37 for a follow-up during which the log and the cursor stayed as they
\* were when the element was activated
C37_AfterOriginWhenUndisturbed ==
    [][\A t \in tasks :
          (/\ CommitsFollowUp(t)
           /\ idsOf(history) = t.log0
           /\ currentHistoryIndex = t.cursor0)
              => /\ PlacedAfterOrigin(t)
                 /\ Len(history') = t.cursor0 + 2]_vars


\* ------------------------------------------------------------------- C38

\* the step is a confirmed reset: the only step that leaves the experience
\* screen
ConfirmedReset == currentScreen = "experience" /\ currentScreen' = "warning"

\* C38: after a confirmed reset the session state is cleared and stays
\* cleared until a new credential is validated: the log is empty, the cursor
\* is -1, no object of the session still holds the credential, and no entry
\* is committed while the session is not on the experience screen, even if a
\* generation was in flight when reset was confirmed.
C38_ResetClearsSession ==
    [][/\ ConfirmedReset =>
             /\ history' = << >>
             /\ currentHistoryIndex' = -1
             /\ apiKey' = NULL
             /\ aiProvider' = NULL
       /\ currentScreen # "experience" =>
             /\ history' = history
             /\ currentHistoryIndex' = currentHistoryIndex
             /\ committed' = committed]_vars

\* what a confirmed reset does clear: state.apiKey, the log and the cursor;
\* off the experience screen no sequence starts, and the log changes only by
\* the commit of a sequence that was already in flight
C38_ClearedExceptProviderAndInFlight ==
    [][/\ ConfirmedReset =>
             /\ history' = << >>
             /\ currentHistoryIndex' = -1
             /\ apiKey' = NULL
       /\ (currentScreen # "experience" /\ tasks = {}) =>
             /\ history' = history
             /\ committed' = committed
       /\ started' > started => currentScreen' = "experience"]_vars

\* the log is not empty while the session is off the experience screen
C38_CommittedOffScreen ==
    currentScreen # "experience" /\ Len(history) > 0


\* ------------------------------------------------------------------- C39

\* sanitizeHTML has been applied to the markup it returned
Resanitized == sanPc = "again"

\* the markup that parses to the sanitized tree is read back as that tree
ReadBackUnchanged(html) == parseHTML(innerHTML(html)) = html

\* C39: sanitizeHTML is idempotent: for every input x,
\* sanitizeHTML(sanitizeHTML(x)) equals sanitizeHTML(x), so the fragment
\* re-sanitized by displayExperience on each render or navigation is
\* identical to the fragment stored in the history entry.
C39_Idempotent ==
    Resanitized => innerHTML(sanAgain) = innerHTML(sanOut)

\* C39 amended: sanitizeHTML(sanitizeHTML(x)) equals sanitizeHTML(x) for
\* every input x whose sanitized markup is read back by the parser as the
\* tree it was written from; a pre, listing or textarea whose text begins
\* with a line feed loses that line feed on each further pass.
C39_IdempotentWhenReadBack ==
    Resanitized =>
        IF ReadBackUnchanged(sanOut)
        THEN innerHTML(sanAgain) = innerHTML(sanOut)
        ELSE \E el \in Elements(sanOut) :
                /\ el.tag \in NewlineTags
                /\ startsWith(el.text, "\n")
                /\ \E again \in Elements(sanAgain) :
                      again.nid = el.nid /\ el.text = "\n" \o again.text

\* a button whose handler was converted to the directive attributes comes
\* out of the second pass as it came out of the first
C39_ConvertedButtonUnchanged ==
    /\ Resanitized
    /\ sanAgain = sanOut
    /\ \E el \in Elements(sanIn), o \in Elements(sanAgain) :
          /\ o.nid = el.nid
          /\ "onclick" \in DOMAIN el.attrs
          /\ "data-alert-message" \in DOMAIN o.attrs
          /\ "onclick" \notin DOMAIN o.attrs

====
